---- MODULE Spec2Model ----
(***************************************************************************)
(* Icon lookup-and-generation gateway (icon-mcp-server).                   *)
(*                                                                         *)
(* Strings are sequences of lexemes.  A lexeme is a literal piece of text; *)
(* every quote, every ">", every backslash and every whitespace character  *)
(* is a lexeme of its own, and every other lexeme is a run of ordinary     *)
(* characters (no quote, no ">", no whitespace).  The words the code's     *)
(* regular expressions and includes() calls look for ("<svg", "</svg",     *)
(* "<?xml", "<!DOCTYPE", "width", "height", "style", "viewBox", "=", "?")  *)
(* occur in the modelled texts only as whole lexemes, so a regular         *)
(* expression over characters is a pattern over lexemes.  Names, search    *)
(* terms, descriptions and file names are sequences of single characters;  *)
(* a character outside ASCII is written by its code point ("U+5220").      *)
(***************************************************************************)
EXTENDS Naturals, Integers, Sequences, FiniteSets, TLC

VARIABLES
  env,       \* what the process runs in: credentials and the local library
  gi,        \* the activation of generateIcon: arguments, position, locals
  cat,       \* the activation of a category operation
  sh,        \* the activation of a search handler
  dd,        \* an array and what the de-duplication made of it
  clImpl,    \* which cleanSvgContent is applied: "generator" or "icons"
  clKind,    \* the argument's JavaScript type: "string", "null", "undefined"
  clIn,      \* the argument when it is a string
  clOut,     \* results of the successive applications, oldest first
  rq         \* the activations of the requests in flight at once, by request

cleanVars == <<clImpl, clKind, clIn, clOut>>

vars == <<env, gi, cat, sh, dd, clImpl, clKind, clIn, clOut, rq>>

----------------------------------------------------------------------------
(* JavaScript String methods on lexeme sequences *)

\* p occurs in s at index i
StartsAt(s, p, i) ==
  /\ i + Len(p) - 1 <= Len(s)
  /\ \A k \in 1..Len(p) : s[i + k - 1] = p[k]

\* s.includes(p)
Includes(s, p) == \E i \in 1..(Len(s) + 1) : StartsAt(s, p, i)

\* \s of a regular expression, and what trim() strips
Spaces == {" ", "\n", "\r", "\t"}

\* ["']
Quotes == {"\"", "'"}

IsSpace(c) == c \in Spaces

IsQuote(c) == c \in Quotes

\* [^"'>\s]
IsBare(c) == ~IsQuote(c) /\ c # ">" /\ ~IsSpace(c)

\* A value the code computes once and uses several times is the argument
\* of a local operator, so that it is computed once here too.

TrimStart(s) ==
  LET From(b) == SubSeq(s, b, Len(s))
  IN From(CHOOSE k \in 1..(Len(s) + 1) :
            (k = Len(s) + 1 \/ ~IsSpace(s[k])) /\ \A j \in 1..(k - 1) : IsSpace(s[j]))

TrimEnd(s) ==
  LET To(e) == SubSeq(s, 1, e)
  IN To(CHOOSE k \in 0..Len(s) :
          (k = 0 \/ ~IsSpace(s[k])) /\ \A j \in (k + 1)..Len(s) : IsSpace(s[j]))

\* s.trim()
Trim(s) == TrimEnd(TrimStart(s))

\* least index >= i of a lexeme in the set cs, Len(s) + 1 when there is
\* none (for i <= Len(s) + 1)
LeastIn(s, i, cs) ==
  CHOOSE m \in i..(Len(s) + 1) :
    (m = Len(s) + 1 \/ s[m] \in cs) /\ \A j \in i..(m - 1) : s[j] \notin cs

\* least index >= i of a lexeme outside the set cs, Len(s) + 1 when there
\* is none (for i <= Len(s) + 1)
LeastOut(s, i, cs) ==
  CHOOSE m \in i..(Len(s) + 1) :
    (m = Len(s) + 1 \/ s[m] \notin cs) /\ \A j \in i..(m - 1) : s[j] \in cs

\* s.replace(/p/g, r) for a literal, non-empty p: the matches from left to
\* right, none overlapping the one before
RECURSIVE ReplaceAll(_, _, _)
ReplaceAll(s, p, r) ==
  LET Cut(k) == SubSeq(s, 1, k - 1) \o r
                \o ReplaceAll(SubSeq(s, k + Len(p), Len(s)), p, r)
      First(Hits) == IF Hits = {} THEN s
                     ELSE Cut(CHOOSE k \in Hits : \A j \in Hits : k <= j)
  IN First({m \in 1..Len(s) : StartsAt(s, p, m)})

\* least index >= i of lexeme c in s, 0 when there is none
IndexFrom(s, c, i) ==
  LET Found(k) == IF k > Len(s) THEN 0 ELSE k
  IN IF i > Len(s) THEN 0 ELSE Found(LeastIn(s, i, {c}))

\* least index >= i of a ">" in s, 0 when there is none
FirstGt(s, i) == IndexFrom(s, ">", i)

\* index after the longest run of \s starting at i
SkipSpace(s, i) == IF i > Len(s) THEN i ELSE LeastOut(s, i, Spaces)

\* index after the longest run of [^"'>\s] starting at i
SkipBare(s, i) ==
  IF i > Len(s) THEN i ELSE LeastIn(s, i, Spaces \cup Quotes \cup {">"})

\* index after the longest run of [^"'] starting at i
SkipNonQuote(s, i) == IF i > Len(s) THEN i ELSE LeastIn(s, i, Quotes)

----------------------------------------------------------------------------
(* cleanSvgContent, generator module (the second definition is the one in
   effect: a later function declaration replaces an earlier one) *)

\* .replace(/\\"/g, '"').replace(/\\'/g, "'")
Unescape(s) == ReplaceAll(ReplaceAll(s, <<"\\", "\"">>, <<"\"">>), <<"\\", "'">>, <<"'">>)

\* a match of /<\?xml[^>]*\?>/ starts at k
XmlDeclAt(s, k) ==
  /\ s[k] = "<?xml"
  /\ \E j \in {FirstGt(s, k + 1)} : j > k + 1 /\ s[j - 1] = "?"

\* .replace(/<\?xml[^>]*\?>/g, '')
RECURSIVE StripXmlDecl(_)
StripXmlDecl(s) ==
  LET Cut(k) == SubSeq(s, 1, k - 1)
                \o StripXmlDecl(SubSeq(s, FirstGt(s, k + 1) + 1, Len(s)))
      First(Hits) == IF Hits = {} THEN s
                     ELSE Cut(CHOOSE k \in Hits : \A j \in Hits : k <= j)
  IN First({m \in 1..Len(s) : XmlDeclAt(s, m)})

\* a match of /<!DOCTYPE[^>]*>/ starts at k
DoctypeAt(s, k) == s[k] = "<!DOCTYPE" /\ FirstGt(s, k + 1) > 0

\* .replace(/<!DOCTYPE[^>]*>/g, '')
RECURSIVE StripDoctype(_)
StripDoctype(s) ==
  LET Cut(k) == SubSeq(s, 1, k - 1)
                \o StripDoctype(SubSeq(s, FirstGt(s, k + 1) + 1, Len(s)))
      First(Hits) == IF Hits = {} THEN s
                     ELSE Cut(CHOOSE k \in Hits : \A j \in Hits : k <= j)
  IN First({m \in 1..Len(s) : DoctypeAt(s, m)})

\* a match of /attr=["']?[^"'>\s]+["']?\s*/ starting at i: the index after
\* the match, 0 when there is no match at i
AttrEndLoose(s, i, attr) ==
  IF ~StartsAt(s, <<attr, "=">>, i) THEN 0
  ELSE LET Value(b) ==
             LET After(c) ==
                   IF c = b THEN 0
                   ELSE SkipSpace(s, IF c <= Len(s) /\ IsQuote(s[c]) THEN c + 1 ELSE c)
             IN After(SkipBare(s, b))
       IN Value(IF i + 2 <= Len(s) /\ IsQuote(s[i + 2]) THEN i + 3 ELSE i + 2)

\* .replace(/attr=["']?[^"'>\s]+["']?\s*/g, '')
RECURSIVE RemoveAttrLoose(_, _)
RemoveAttrLoose(s, attr) ==
  LET Cut(k) == SubSeq(s, 1, k - 1)
                \o RemoveAttrLoose(SubSeq(s, AttrEndLoose(s, k, attr), Len(s)), attr)
      First(Hits) == IF Hits = {} THEN s
                     ELSE Cut(CHOOSE k \in Hits : \A j \in Hits : k <= j)
  IN First({m \in 1..Len(s) : AttrEndLoose(s, m, attr) > 0})

\* .replace(/<svg([^>]*)>/, `<svg$1${ins}>`): the first "<svg" that has a
\* ">" after it gets ins put before that ">"
InsertInSvgTag(s, ins) ==
  LET Put(j) == IF j = 0 THEN s
                ELSE SubSeq(s, 1, j - 1) \o ins \o SubSeq(s, j, Len(s))
      Tag(i) == Put(IF i = 0 THEN 0 ELSE FirstGt(s, i + 1))
  IN Tag(IndexFrom(s, "<svg", 1))

\* ' style="display: inline-block; vertical-align: middle;"'
StyleAttr ==
  <<" ", "style", "=", "\"", "display:", " ", "inline-block;", " ",
    "vertical-align:", " ", "middle;", "\"">>

\* ' width="30px" height="30px"'
SizeAttrsPx ==
  <<" ", "width", "=", "\"", "30px", "\"", " ", "height", "=", "\"", "30px", "\"">>

\* if (!cleanedSvg.includes('style=')) insert the style attribute
EnsureStyle(s) ==
  IF Includes(s, <<"style", "=">>) THEN s ELSE InsertInSvgTag(s, StyleAttr)

\* .replace(/\n/g, '').replace(/\r/g, '')
RemoveLineBreaks(s) == SelectSeq(s, LAMBDA c : c \notin {"\n", "\r"})

cleanSvgContent(s) ==
  LET a == Trim(StripXmlDecl(Unescape(s)))
      b == RemoveAttrLoose(RemoveAttrLoose(a, "width"), "height")
      c == EnsureStyle(InsertInSvgTag(b, SizeAttrsPx))
      d == Trim(StripDoctype(c))
  IN Trim(RemoveLineBreaks(d))

----------------------------------------------------------------------------
(* cleanSvgContent, icons module *)

\* a match of /\s*attr=["'][^"']*["']/ starting at i: the index after the
\* match, 0 when there is no match at i
AttrEndQuoted(s, i, attr) ==
  LET Close(c) == IF c <= Len(s) THEN c + 1 ELSE 0
      Name(a) == IF ~StartsAt(s, <<attr, "=">>, a) THEN 0
                 ELSE IF ~(a + 2 <= Len(s) /\ IsQuote(s[a + 2])) THEN 0
                      ELSE Close(SkipNonQuote(s, a + 3))
  IN Name(SkipSpace(s, i))

\* .replace(/\s*attr=["'][^"']*["']/g, '')
RECURSIVE RemoveAttrQuoted(_, _)
RemoveAttrQuoted(s, attr) ==
  LET Cut(k) == SubSeq(s, 1, k - 1)
                \o RemoveAttrQuoted(SubSeq(s, AttrEndQuoted(s, k, attr), Len(s)), attr)
      First(Hits) == IF Hits = {} THEN s
                     ELSE Cut(CHOOSE k \in Hits : \A j \in Hits : k <= j)
  IN First({m \in 1..Len(s) : AttrEndQuoted(s, m, attr) > 0})

\* ' width="30" height="30"'
SizeAttrs ==
  <<" ", "width", "=", "\"", "30", "\"", " ", "height", "=", "\"", "30", "\"">>

\* svgContent.replace(/\"/g, '"').replace(/\'/g, "'") replaces each quote by
\* itself: in a regular expression literal \" is the quote character
iconsCleanSvgContent(s) ==
  LET a == Trim(StripXmlDecl(s))
      b == RemoveAttrQuoted(RemoveAttrQuoted(a, "width"), "height")
      c == EnsureStyle(InsertInSvgTag(b, SizeAttrs))
  IN Trim(StripDoctype(c))

----------------------------------------------------------------------------
(* JavaScript String methods on sequences of characters *)

LowerLetters == <<"a", "b", "c", "d", "e", "f", "g", "h", "i", "j", "k", "l", "m", "n", "o", "p", "q", "r", "s", "t", "u", "v", "w", "x", "y", "z">>

UpperLetters == <<"A", "B", "C", "D", "E", "F", "G", "H", "I", "J", "K", "L", "M", "N", "O", "P", "Q", "R", "S", "T", "U", "V", "W", "X", "Y", "Z">>

Digits == <<"0", "1", "2", "3", "4", "5", "6", "7", "8", "9">>

Range(s) == {s[i] : i \in 1..Len(s)}

\* [a-z]
IsLower(c) == c \in Range(LowerLetters)

\* [A-Z]
IsUpper(c) == c \in Range(UpperLetters)

\* [a-z0-9]
IsLowerAlnum(c) == IsLower(c) \/ c \in Range(Digits)

PositionIn(s, c) == CHOOSE k \in 1..Len(s) : s[k] = c

LowerChar(c) == IF IsUpper(c) THEN LowerLetters[PositionIn(UpperLetters, c)] ELSE c

UpperChar(c) == IF IsLower(c) THEN UpperLetters[PositionIn(LowerLetters, c)] ELSE c

\* s.toLowerCase()
toLowerCase(s) == [i \in 1..Len(s) |-> LowerChar(s[i])]

\* s.toUpperCase()
toUpperCase(s) == [i \in 1..Len(s) |-> UpperChar(s[i])]

\* s.endsWith(p)
EndsWith(s, p) == Len(s) >= Len(p) /\ StartsAt(s, p, Len(s) - Len(p) + 1)

\* s.replace(p, r) for a string p: the first occurrence only
RECURSIVE ReplaceFirst(_, _, _)
ReplaceFirst(s, p, r) ==
  IF StartsAt(s, p, 1) THEN r \o SubSeq(s, Len(p) + 1, Len(s))
  ELSE IF s = <<>> THEN <<>>
       ELSE <<Head(s)>> \o ReplaceFirst(Tail(s), p, r)

\* s.slice(0, n) of an array
Take(s, n) == SubSeq(s, 1, IF n < Len(s) THEN n ELSE Len(s))

\* index after the longest run of non-whitespace starting at i
RECURSIVE SkipNonSpace(_, _)
SkipNonSpace(s, i) ==
  IF i <= Len(s) /\ ~IsSpace(s[i]) THEN SkipNonSpace(s, i + 1) ELSE i

\* s.split(/\s+/) without the empty strings it yields at the ends
RECURSIVE SplitWords(_)
SplitWords(s) ==
  LET Word(t, e) == <<SubSeq(t, 1, e - 1)>> \o SplitWords(SubSeq(t, e, Len(t)))
      Rest(t) == IF t = <<>> THEN <<>> ELSE Word(t, SkipNonSpace(t, 1))
  IN Rest(TrimStart(s))

\* s.split(',')
RECURSIVE SplitComma(_)
SplitComma(s) ==
  LET At(i) == IF i = 0 THEN <<s>>
               ELSE <<SubSeq(s, 1, i - 1)>> \o SplitComma(SubSeq(s, i + 1, Len(s)))
  IN At(IndexFrom(s, ",", 1))

\* JavaScript null where a string is expected
null == <<"(null)">>

\* JavaScript undefined where a string is expected
undefined == <<"(undefined)">>

\* a string-or-null value in a condition: null and '' are falsy
Truthy(s) == s # null /\ s # <<>>

\* s.split(',').map((n) => n.trim()).filter((n) => n.length > 0)
NameArray(s) ==
  LET Kept(parts) == SelectSeq([i \in 1..Len(parts) |-> Trim(parts[i])],
                               LAMBDA n : Len(n) > 0)
  IN Kept(SplitComma(s))

----------------------------------------------------------------------------
(* Names, icons module and generator module *)

\* .replace(/-([a-z])/g, (g) => g[1].toUpperCase())
RECURSIVE UpperAfterHyphen(_)
UpperAfterHyphen(s) ==
  IF s = <<>> THEN <<>>
  ELSE IF Len(s) >= 2 /\ s[1] = "-" /\ IsLower(s[2])
       THEN <<UpperChar(s[2])>> \o UpperAfterHyphen(SubSeq(s, 3, Len(s)))
       ELSE <<Head(s)>> \o UpperAfterHyphen(Tail(s))

toCamelCase(str) ==
  LET First(t) == IF t = <<>> \/ Head(t) \in {"\n", "\r"} THEN t
                  ELSE <<UpperChar(Head(t))>> \o Tail(t)
  IN First(UpperAfterHyphen(str))

\* .replace(/(outlined|filled)$/g, '')
StripFormatSuffix(s) ==
  IF EndsWith(s, <<"o", "u", "t", "l", "i", "n", "e", "d">>) THEN SubSeq(s, 1, Len(s) - 8)
  ELSE IF EndsWith(s, <<"f", "i", "l", "l", "e", "d">>) THEN SubSeq(s, 1, Len(s) - 6)
       ELSE s

\* .replace(/([a-z])([A-Z])/g, '$1-$2')
RECURSIVE HyphenateCamel(_)
HyphenateCamel(s) ==
  IF s = <<>> THEN <<>>
  ELSE IF Len(s) >= 2 /\ IsLower(s[1]) /\ IsUpper(s[2])
       THEN <<s[1], "-", s[2]>> \o HyphenateCamel(SubSeq(s, 3, Len(s)))
       ELSE <<Head(s)>> \o HyphenateCamel(Tail(s))

processIconName(n) ==
  IF ~Truthy(n) THEN n
  ELSE Trim(toLowerCase(HyphenateCamel(StripFormatSuffix(toLowerCase(n)))))

\* word.charAt(0).toUpperCase() + word.slice(1)
Capitalize(w) == IF w = <<>> THEN w ELSE <<UpperChar(Head(w))>> \o Tail(w)

RECURSIVE JoinCapitalized(_)
JoinCapitalized(ws) ==
  IF ws = <<>> THEN <<>> ELSE Capitalize(Head(ws)) \o JoinCapitalized(Tail(ws))

generateIconName(d) ==
  LET Name(words) == IF words = <<>> THEN <<"G", "e", "n", "e", "r", "a", "t", "e", "d", "I", "c", "o", "n">>
                     ELSE Head(words) \o JoinCapitalized(Tail(words))
  IN Name(Take(SplitWords(SelectSeq(toLowerCase(d),
                                    LAMBDA c : IsLowerAlnum(c) \/ IsSpace(c))), 3))

keywordMap ==
  << <<<<"U+5220", "U+9664">>, <<"d", "e", "l", "e", "t", "e">>>>, <<<<"d", "e", "l", "e", "t", "e">>, <<"d", "e", "l", "e", "t", "e">>>>, <<<<"r", "e", "m", "o", "v", "e">>, <<"d", "e", "l", "e", "t", "e">>>>,
     <<<<"U+6DFB", "U+52A0">>, <<"a", "d", "d">>>>, <<<<"a", "d", "d">>, <<"a", "d", "d">>>>, <<<<"p", "l", "u", "s">>, <<"a", "d", "d">>>>,
     <<<<"U+7F16", "U+8F91">>, <<"e", "d", "i", "t">>>>, <<<<"e", "d", "i", "t">>, <<"e", "d", "i", "t">>>>, <<<<"U+4FEE", "U+6539">>, <<"e", "d", "i", "t">>>>,
     <<<<"U+4FDD", "U+5B58">>, <<"s", "a", "v", "e">>>>, <<<<"s", "a", "v", "e">>, <<"s", "a", "v", "e">>>>,
     <<<<"U+641C", "U+7D22">>, <<"s", "e", "a", "r", "c", "h">>>>, <<<<"s", "e", "a", "r", "c", "h">>, <<"s", "e", "a", "r", "c", "h">>>>, <<<<"U+67E5", "U+627E">>, <<"s", "e", "a", "r", "c", "h">>>>,
     <<<<"U+5173", "U+95ED">>, <<"c", "l", "o", "s", "e">>>>, <<<<"c", "l", "o", "s", "e">>, <<"c", "l", "o", "s", "e">>>>,
     <<<<"U+53D6", "U+6D88">>, <<"c", "a", "n", "c", "e", "l">>>>, <<<<"c", "a", "n", "c", "e", "l">>, <<"c", "a", "n", "c", "e", "l">>>>,
     <<<<"U+786E", "U+8BA4">>, <<"c", "o", "n", "f", "i", "r", "m">>>>, <<<<"c", "o", "n", "f", "i", "r", "m">>, <<"c", "o", "n", "f", "i", "r", "m">>>>, <<<<"U+786E", "U+5B9A">>, <<"c", "o", "n", "f", "i", "r", "m">>>>,
     <<<<"U+4E0A", "U+4F20">>, <<"u", "p", "l", "o", "a", "d">>>>, <<<<"u", "p", "l", "o", "a", "d">>, <<"u", "p", "l", "o", "a", "d">>>>,
     <<<<"U+4E0B", "U+8F7D">>, <<"d", "o", "w", "n", "l", "o", "a", "d">>>>, <<<<"d", "o", "w", "n", "l", "o", "a", "d">>, <<"d", "o", "w", "n", "l", "o", "a", "d">>>>,
     <<<<"U+8BBE", "U+7F6E">>, <<"s", "e", "t", "t", "i", "n", "g">>>>, <<<<"s", "e", "t", "t", "i", "n", "g">>, <<"s", "e", "t", "t", "i", "n", "g">>>>, <<<<"U+914D", "U+7F6E">>, <<"s", "e", "t", "t", "i", "n", "g">>>>,
     <<<<"U+7528", "U+6237">>, <<"u", "s", "e", "r">>>>, <<<<"u", "s", "e", "r">>, <<"u", "s", "e", "r">>>>,
     <<<<"U+4E3B", "U+9875">>, <<"h", "o", "m", "e">>>>, <<<<"h", "o", "m", "e">>, <<"h", "o", "m", "e">>>>,
     <<<<"U+83DC", "U+5355">>, <<"m", "e", "n", "u">>>>, <<<<"m", "e", "n", "u">>, <<"m", "e", "n", "u">>>>,
     <<<<"U+66F4", "U+591A">>, <<"m", "o", "r", "e">>>>, <<<<"m", "o", "r", "e">>, <<"m", "o", "r", "e">>>> >>

\* the words of the description added to the keywords of the map
extractSearchKeywordsAndWords(d) ==
  LET Words(lowerDesc) ==
        Take(SelectSeq(SplitWords([i \in 1..Len(lowerDesc) |->
                                     IF IsLowerAlnum(lowerDesc[i]) \/ IsSpace(lowerDesc[i])
                                     THEN lowerDesc[i] ELSE " "]),
                       LAMBDA w : Len(w) > 2), 3)
      Keywords(lowerDesc, hits) ==
        [i \in 1..Len(hits) |-> hits[i][2]] \o Words(lowerDesc)
      Mapped(lowerDesc) ==
        Keywords(lowerDesc, SelectSeq(keywordMap, LAMBDA e : Includes(lowerDesc, e[1])))
  IN Mapped(toLowerCase(d))

extractSearchKeywords(d) ==
  LET Words(lowerDesc) ==
        Take(SelectSeq(SplitWords([i \in 1..Len(lowerDesc) |->
                                     IF IsLowerAlnum(lowerDesc[i]) \/ IsSpace(lowerDesc[i])
                                     THEN lowerDesc[i] ELSE " "]),
                       LAMBDA w : Len(w) > 2), 3)
      Keywords(lowerDesc, hits) ==
        IF hits # <<>> THEN [i \in 1..Len(hits) |-> hits[i][2]] ELSE Words(lowerDesc)
      Mapped(lowerDesc) ==
        Keywords(lowerDesc, SelectSeq(keywordMap, LAMBDA e : Includes(lowerDesc, e[1])))
  IN Mapped(toLowerCase(d))

----------------------------------------------------------------------------
(* Library adapters, icons module.  A listing is what readdirSync (local)
   or the directory request (remote) gives: ok is FALSE when it fails, and
   each file has a name, whether its content can be obtained, and the
   content.  A library view has one listing per family directory. *)

DotSvg == <<".", "s", "v", "g">>

ElementPlus == <<"E", "l", "e", "m", "e", "n", "t", " ", "P", "l", "u", "s">>

AntDesign == <<"A", "n", "t", " ", "D", "e", "s", "i", "g", "n">>

\* the filter without the test of the name
MatchesFileAnyName(file, processedName, exact) == EndsWith(file, DotSvg)

\* file.endsWith('.svg') && (exact ? file.replace('.svg', '').toLowerCase()
\* === processedName : file.toLowerCase().includes(processedName))
MatchesFile(file, processedName, exact) ==
  /\ EndsWith(file, DotSvg)
  /\ IF exact THEN toLowerCase(ReplaceFirst(file, DotSvg, <<>>)) = processedName
     ELSE Includes(toLowerCase(file), processedName)

\* the body of the adapters without the try and catch around the reading
\* of one file: the failure reaches the outer catch, which returns []
ReadIconsNoItemCatch(listing, source, term, format, exact) ==
  IF ~listing.ok THEN <<>>
  ELSE LET Icons(got) ==
             [i \in 1..Len(got) |->
                [source |-> source,
                 name |-> toCamelCase(ReplaceFirst(got[i].name, DotSvg, <<>>)) \o format,
                 svg |-> got[i].content,
                 rawSvg |-> iconsCleanSvgContent(got[i].content)]]
           Read(matched) ==
             IF \E i \in 1..Len(matched) : ~matched[i].readable THEN <<>>
             ELSE Icons(matched)
           Matched(processedName) ==
             SelectSeq(listing.files,
                       LAMBDA f : MatchesFile(f.name, processedName, exact))
       IN Read(Matched(processIconName(term)))

\* the body shared by the adapters: filter the listing, name each match,
\* obtain and clean its content, skip a file whose content cannot be had
ReadIcons(listing, source, term, format, exact) ==
  IF ~listing.ok THEN <<>>
  ELSE LET Icons(got) ==
             [i \in 1..Len(got) |->
                [source |-> source,
                 name |-> toCamelCase(ReplaceFirst(got[i].name, DotSvg, <<>>)) \o format,
                 svg |-> got[i].content,
                 rawSvg |-> iconsCleanSvgContent(got[i].content)]]
           Matched(processedName) ==
             SelectSeq(listing.files,
                       LAMBDA f : MatchesFile(f.name, processedName, exact))
       IN Icons(SelectSeq(Matched(processIconName(term)), LAMBDA f : f.readable))

\* the remote branch as services/icons.js has it: the name is compared as
\* given, in lower case, and there is no exact flag
ReadIconsRemoteByGivenName(listing, source, term, format, exact) ==
  IF ~listing.ok THEN <<>>
  ELSE LET Icons(fetched) ==
             [i \in 1..Len(fetched) |->
                [source |-> source,
                 name |-> toCamelCase(ReplaceFirst(fetched[i].name, DotSvg, <<>>)) \o format,
                 svg |-> fetched[i].content,
                 rawSvg |-> iconsCleanSvgContent(fetched[i].content)]]
           Matched(name) ==
             SelectSeq(listing.files,
                       LAMBDA file : /\ EndsWith(file.name, DotSvg)
                                     /\ Includes(toLowerCase(file.name), name))
       IN Icons(SelectSeq(Matched(toLowerCase(term)), LAMBDA file : file.readable))

\* the remote branch of the adapters: response.data of the directory request
\* is the listing, file.name is tested by the same filter, and the markup of
\* a match is svgResponse.data; a match whose request fails is passed over
ReadIconsRemote(listing, source, term, format, exact) ==
  IF ~listing.ok THEN <<>>
  ELSE LET Icons(fetched) ==
             [i \in 1..Len(fetched) |->
                [source |-> source,
                 name |-> toCamelCase(ReplaceFirst(fetched[i].name, DotSvg, <<>>)) \o format,
                 svg |-> fetched[i].content,
                 rawSvg |-> iconsCleanSvgContent(fetched[i].content)]]
           Matched(processedName) ==
             SelectSeq(listing.files,
                       LAMBDA file : MatchesFile(file.name, processedName, exact))
       IN Icons(SelectSeq(Matched(processIconName(term)), LAMBDA file : file.readable))

getElementPlusIcons(view, term, exact) ==
  ReadIcons(view.ep, ElementPlus, term, <<>>, exact)

getAntDesignIconsByFormat(view, term, format, exact) ==
  ReadIcons(IF format = "Outlined" THEN view.ado ELSE view.adf, AntDesign, term,
            IF format = "Outlined" THEN <<"O", "u", "t", "l", "i", "n", "e", "d">> ELSE <<"F", "i", "l", "l", "e", "d">>, exact)

\* "outlined" asks the outlined directory, "filled" the filled one, and
\* anything else both, outlined first
getAntDesignIcons(view, term, format, exact) ==
  (IF format # "filled"
   THEN getAntDesignIconsByFormat(view, term, "Outlined", exact) ELSE <<>>)
  \o (IF format # "outlined"
      THEN getAntDesignIconsByFormat(view, term, "Filled", exact) ELSE <<>>)

----------------------------------------------------------------------------
(* De-duplication: Array.from(new Map(icons.map(icon =>
   [`${icon.source}-${icon.name}`, icon])).values()) *)

\* `${icon.source}-${icon.name}`
IconKey(icon) == icon.source \o <<"-">> \o icon.name

HasKey(m, k) == \E i \in 1..Len(m) : m[i][1] = k

\* a Map whose set leaves a key already in the map with the value it has
MapSetKeepFirst(m, k, v) == IF HasKey(m, k) THEN m ELSE Append(m, <<k, v>>)

\* Map.prototype.set: a key already in the map keeps its place and gets the
\* new value, a new key goes to the end
MapSet(m, k, v) ==
  IF HasKey(m, k)
  THEN [i \in 1..Len(m) |-> IF m[i][1] = k THEN <<k, v>> ELSE m[i]]
  ELSE Append(m, <<k, v>>)

\* new Map(entries): the entries are set one after the other
RECURSIVE NewMap(_, _)
NewMap(m, entries) ==
  IF entries = <<>> THEN m
  ELSE NewMap(MapSet(m, Head(entries)[1], Head(entries)[2]), Tail(entries))

\* Array.from(map.values())
MapValues(m) == [i \in 1..Len(m) |-> m[i][2]]

uniqueIcons(icons) ==
  MapValues(NewMap(<<>>, [i \in 1..Len(icons) |-> <<IconKey(icons[i]), icons[i]>>]))

----------------------------------------------------------------------------
(* Generator module: providers, validation, keyword search, stock icons.
   A style, a model and a format are compared with literals only and are
   plain strings; NoModel is JavaScript null for a model. *)

NoModel == "null"

Tongyi == "tongyi"

Doubao == "doubao"

\* a model of services/iconGenerator.js and of the README, which the
\* generator module has no adapter for
OpenAI == "openai"

\* the keys are the providers whose credential is in the environment
hasApiKeyForModel(keys, m) == m \in {Tongyi, Doubao} /\ m \in keys

selectAvailableModel(keys) ==
  IF hasApiKeyForModel(keys, Tongyi) THEN Tongyi
  ELSE IF hasApiKeyForModel(keys, Doubao) THEN Doubao
       ELSE NoModel

\* the three backquotes of a code fence, written by code point
Fence == "U+0060U+0060U+0060"

\* the language tags /^```(?:svg|html)?\n?/i accepts, in the spellings the
\* replies use
FenceLanguages == {"svg", "html", "SVG", "HTML"}

\* .replace(/^```(?:svg|html)?\n?/i, '')
StripFenceOpen(t) ==
  IF t = <<>> \/ Head(t) # Fence THEN t
  ELSE LET Break(b) == IF b # <<>> /\ Head(b) = "\n" THEN Tail(b) ELSE b
           Language(a) == Break(IF a # <<>> /\ Head(a) \in FenceLanguages
                                THEN Tail(a) ELSE a)
       IN Language(Tail(t))

\* .replace(/\n?```$/i, '')
StripFenceClose(t) ==
  IF t = <<>> \/ t[Len(t)] # Fence THEN t
  ELSE LET a == SubSeq(t, 1, Len(t) - 1)
       IN IF a # <<>> /\ a[Len(a)] = "\n" THEN SubSeq(a, 1, Len(a) - 1) ELSE a

\* a provider request: it throws without the credential and when the
\* request fails, and otherwise returns the reply without code fences
ProviderText(keys, m, call, reply) ==
  IF ~(m \in keys) THEN [threw |-> TRUE, text |-> <<>>, calls |-> <<>>]
  ELSE IF ~reply.ok THEN [threw |-> TRUE, text |-> <<>>, calls |-> <<call>>]
       ELSE [threw |-> FALSE,
             text |-> Trim(StripFenceClose(StripFenceOpen(Trim(reply.text)))),
             calls |-> <<call>>]

generateSVGWithTongyi(keys, reply) ==
  ProviderText(keys, Tongyi, "axios.post dashscope", reply)

generateSVGWithDoubao(keys, reply) ==
  ProviderText(keys, Doubao, "axios.post doubao", reply)

\* a test that takes any text that is not empty
isValidSVGAnyText(svgCode) == svgCode # <<>>

isValidSVG(svgCode) ==
  /\ svgCode # <<>>
  /\ Includes(svgCode, <<"<svg">>)
  /\ Includes(svgCode, <<"</svg", ">">>)
  /\ \/ Includes(svgCode, <<"viewBox">>)
     \/ Includes(svgCode, <<"width">>)
     \/ Includes(svgCode, <<"height">>)

\* the searches of one keyword in searchIconFromLibrary
\* "default" asks both families, Element Plus first; any other style but
\* the two family names asks none
LibraryHits(view, keyword, style) ==
  (IF style \in {"default", "element-plus"}
   THEN getElementPlusIcons(view, keyword, FALSE) ELSE <<>>)
  \o (IF style \in {"default", "ant-design"}
      THEN getAntDesignIcons(view, keyword, "undefined", FALSE) ELSE <<>>)

RECURSIVE LibraryHitsAll(_, _, _)
LibraryHitsAll(view, keywords, style) ==
  IF keywords = <<>> THEN <<>>
  ELSE LibraryHits(view, Head(keywords), style)
       \o LibraryHitsAll(view, Tail(keywords), style)

\* searchIconFromLibrary(description, style) with returnAll false: the
\* markup of the first match, or null
searchIconFromLibrary(view, d, style) ==
  LET First(found) ==
        IF found = <<>> THEN null
        ELSE IF found[1].rawSvg # <<>> THEN found[1].rawSvg ELSE found[1].svg
      Search(searchKeywords) ==
        IF searchKeywords = <<>> THEN null
        ELSE First(uniqueIcons(LibraryHitsAll(view, searchKeywords, style)))
  IN Search(extractSearchKeywords(d))

\* generateSVGCode without the search of the library: with no adapter to
\* call it throws
generateSVGCodeProvidersOnly(keys, view, d, style, m, reply) ==
  IF m = Tongyi THEN generateSVGWithTongyi(keys, reply)
  ELSE IF m = Doubao THEN generateSVGWithDoubao(keys, reply)
  ELSE IF hasApiKeyForModel(keys, Tongyi) THEN generateSVGWithTongyi(keys, reply)
  ELSE IF hasApiKeyForModel(keys, Doubao) THEN generateSVGWithDoubao(keys, reply)
  ELSE [threw |-> TRUE, text |-> <<>>, calls |-> <<>>]

generateSVGCode(keys, view, d, style, m, reply) ==
  IF m = Tongyi THEN generateSVGWithTongyi(keys, reply)
  ELSE IF m = Doubao THEN generateSVGWithDoubao(keys, reply)
  ELSE IF hasApiKeyForModel(keys, Tongyi) THEN generateSVGWithTongyi(keys, reply)
  ELSE IF hasApiKeyForModel(keys, Doubao) THEN generateSVGWithDoubao(keys, reply)
  ELSE LET Found(svgFromSearch) ==
             IF Truthy(svgFromSearch)
             THEN [threw |-> FALSE, text |-> svgFromSearch,
                   calls |-> <<"searchIconFromLibrary">>]
             ELSE [threw |-> TRUE, text |-> <<>>,
                   calls |-> <<"searchIconFromLibrary">>]
       IN Found(searchIconFromLibrary(view, d, style))

\* `Iconify (${iconInfo.prefix})`
IconifySource(p) == <<"I", "c", "o", "n", "i", "f", "y", " ", "(">> \o p \o <<")">>

\* the loop over results.slice(0, 5): an entry without icon, an entry whose
\* markup request fails and an entry with empty markup are passed over
RECURSIVE IconifyIcons(_)
IconifyIcons(results) ==
  IF results = <<>> THEN <<>>
  ELSE LET Icon(r) ==
             IF r.icon /\ r.fetched /\ r.body # <<>>
             THEN << [source |-> IconifySource(r.prefix), name |-> r.name,
                      svg |-> r.body, rawSvg |-> cleanSvgContent(r.body)] >>
             ELSE <<>>
       IN Icon(Head(results)) \o IconifyIcons(Tail(results))

\* the requests of that loop: one per entry that has an icon
IconifyFetches(results) ==
  [i \in 1..Len(SelectSeq(results, LAMBDA r : r.icon)) |-> "axios.get iconify svg"]

\* searchIconFromIconify(description), response being what the search
\* request gives: ok FALSE when it fails, results [] when the field is absent
searchIconFromIconify(d, response) ==
  IF extractSearchKeywords(d) = <<>> THEN [icons |-> <<>>, calls |-> <<>>]
  ELSE IF ~response.ok
       THEN [icons |-> <<>>, calls |-> <<"axios.get iconify search">>]
       ELSE [icons |-> IconifyIcons(Take(response.results, 5)),
             calls |-> <<"axios.get iconify search">>
                       \o IconifyFetches(Take(response.results, 5))]

AIGenerated == <<"A", "I", "U+751F", "U+6210">>

\* the opening tag and the closing tag every template shares
RuleSvg(fill, inner) ==
  <<"<svg", " ", "width", "=", "\"", "24", "\"", " ", "height", "=", "\"", "24", "\"", " ", "viewBox", "=", "\"", "0", " ", "0", " ", "24", " ", "24", "\"", " ", "fill", "=", "\"">> \o <<fill>>
  \o <<"\"", " ", "xmlns", "=", "\"", "http://www.w3.org/2000/svg", "\"", ">", "\n", " ", " ">> \o inner \o <<"\n", "</svg", ">">>

generateSVGByRules(d, style) ==
  LET iconName == generateIconName(d)
      fill == IF style = "ant-design" THEN "none" ELSE "currentColor"
      Rules(lowerDesc) ==
     IF \/ Includes(lowerDesc, <<"U+5220", "U+9664">>) \/ Includes(lowerDesc, <<"d", "e", "l", "e", "t", "e">>)
        \/ Includes(lowerDesc, <<"r", "e", "m", "o", "v", "e">>)
     THEN RuleSvg(fill, <<"<path", " ", "d", "=", "\"", "M12", " ", "2C6.48", " ", "2", " ", "2", " ", "6.48", " ", "2", " ", "12s4.48", " ", "10", " ", "10", " ", "10", " ", "10-4.48", " ", "10-10S17.52", " ", "2", " ", "12", " ", "2zm5", " ", "11H7v-2h10v2z", "\"", "/", ">">>)
     ELSE IF \/ Includes(lowerDesc, <<"U+6DFB", "U+52A0">>) \/ Includes(lowerDesc, <<"a", "d", "d">>)
             \/ Includes(lowerDesc, <<"p", "l", "u", "s">>)
     THEN RuleSvg(fill, <<"<path", " ", "d", "=", "\"", "M19", " ", "13h-6v6h-2v-6H5v-2h6V5h2v6h6v2z", "\"", "/", ">">>)
     ELSE IF \/ Includes(lowerDesc, <<"U+7F16", "U+8F91">>) \/ Includes(lowerDesc, <<"e", "d", "i", "t">>)
             \/ Includes(lowerDesc, <<"U+4FEE", "U+6539">>)
     THEN RuleSvg(fill, <<"<path", " ", "d", "=", "\"", "M3", " ", "17.25V21h3.75L17.81", " ", "9.94l-3.75-3.75L3", " ", "17.25zM20.71", " ", "7.04c.39-.39.39-1.02", " ", "0-1.41l-2.34-2.34c-.39-.39-1.02-.39-1.41", " ", "0l-1.83", " ", "1.83", " ", "3.75", " ", "3.75", " ", "1.83-1.83z", "\"", "/", ">">>)
     ELSE RuleSvg(fill,
            <<"<rect", " ", "width", "=", "\"", "24", "\"", " ", "height", "=", "\"", "24", "\"", " ", "fill", "=", "\"", "currentColor", "\"", " ", "opacity", "=", "\"", "0.1", "\"", "/", ">", "\n", " ", " ", "<text", " ", "x", "=", "\"", "50%", "\"", " ", "y", "=", "\"", "50%", "\"", " ", "text-anchor", "=", "\"", "middle", "\"", " ", "dominant-baseline", "=", "\"", "middle", "\"", " ", "font-size", "=", "\"", "12", "\"", " ", "fill", "=", "\"", "currentColor", "\"", ">">>
            \o toUpperCase(Take(iconName, 2)) \o <<"</text", ">">>)
  IN Rules(toLowerCase(d))

----------------------------------------------------------------------------
(* Markup texts the canonicalizers are applied to *)

RECURSIVE Flatten(_)
Flatten(ss) == IF ss = <<>> THEN <<>> ELSE Head(ss) \o Flatten(Tail(ss))

\* all sequences over S of length at most n
SeqsUpTo(S, n) == UNION {[1..k -> S] : k \in 0..n}

\* greatest number of attributes in a generated root tag
MaxAttrs == 2

\* greatest number of successive applications of a canonicalizer
MaxApply == 2

\* <?xml version="1.0"?>
XmlDecl == <<"<?xml", " ", "version", "=", "\"", "1.0", "\"", "?", ">">>

\* <!DOCTYPE svg>
Doctype == <<"<!DOCTYPE", " ", "svg", ">">>

AttrViewBox == <<" ", "viewBox", "=", "\"", "0", " ", "0", " ", "24", " ", "24", "\"">>
AttrWidth == <<" ", "width", "=", "\"", "24", "\"">>
AttrHeight == <<" ", "height", "=", "\"", "24", "\"">>
AttrStyleRed == <<" ", "style", "=", "\"", "color:red", "\"">>
AttrStrokeWidth == <<" ", "stroke-", "width", "=", "\"", "2", "\"">>

\* <rect width="24" height="24"/>
ElemRect ==
  <<"<rect", " ", "width", "=", "\"", "24", "\"", " ", "height", "=", "\"", "24", "\"", "/", ">">>

\* <path d="M19 13z"/> on a line of its own, indented
ElemPathLine ==
  <<"\n", " ", " ", "<path", " ", "d", "=", "\"", "M19", " ", "13z", "\"", "/", ">", "\n">>

Prologues ==
  { <<>>, XmlDecl, Doctype, XmlDecl \o <<"\n">> \o Doctype \o <<"\n">> }

RootAttrs == {AttrViewBox, AttrWidth, AttrHeight, AttrStyleRed, AttrStrokeWidth}

Bodies == { <<>>, ElemRect, ElemPathLine }

Epilogues == { <<>>, <<"\n">> }

\* prologue <svg attributes> body </svg> epilogue
SvgDoc(pro, attrs, body, epi) ==
  pro \o <<"<svg">> \o Flatten(attrs) \o <<">">> \o body \o <<"</svg", ">">> \o epi

SvgDocs ==
  { SvgDoc(pro, attrs, body, epi) :
      pro \in Prologues, attrs \in SeqsUpTo(RootAttrs, MaxAttrs),
      body \in Bodies, epi \in Epilogues }

\* texts that are no svg document
OddTexts ==
  { <<>>, <<" ">>, <<"\n">>, <<"hello">>, XmlDecl,
    <<"<svg", " ", "viewBox", "=", "\\", "\"", "0", "\\", "\"", ">", "</svg", ">">>,
    <<"<!DOCTYPE", " ", "<svg", " ", "viewBox", " ", "</svg", ">">> }

CleanInputs == SvgDocs \cup OddTexts

----------------------------------------------------------------------------
(* What generateIcon is called with and what it runs in *)

\* <svg viewBox="0 0 24 24"><rect width="24" height="24"/></svg> and a
\* line break
DocRect == SvgDoc(<<>>, <<AttrViewBox>>, ElemRect, <<"\n">>)

\* an XML declaration, then <svg width="24" height="24"> with a path
DocPath == SvgDoc(XmlDecl \o <<"\n">>, <<AttrWidth, AttrHeight>>, ElemPathLine, <<>>)

File(n, r, c) == [name |-> n, readable |-> r, content |-> c]

Listing(fs) == [ok |-> TRUE, files |-> fs]

NoListing == [ok |-> FALSE, files |-> <<>>]

\* a library with several icons per family, an empty file, a file that
\* cannot be read and a file that is no icon
ViewFull ==
  [ep |-> Listing(<< File(<<"a", "d", "d", "-", "l", "o", "c", "a", "t", "i", "o", "n", ".", "s", "v", "g">>, TRUE, DocRect),
                     File(<<"c", "i", "r", "c", "l", "e", "-", "p", "l", "u", "s", ".", "s", "v", "g">>, TRUE, DocPath),
                     File(<<"d", "e", "l", "e", "t", "e", ".", "s", "v", "g">>, TRUE, <<>>),
                     File(<<"e", "d", "i", "t", ".", "s", "v", "g">>, FALSE, <<>>),
                     File(<<"R", "E", "A", "D", "M", "E", ".", "m", "d">>, TRUE, <<"plus">>) >>),
   ado |-> Listing(<< File(<<"d", "e", "l", "e", "t", "e", ".", "s", "v", "g">>, TRUE, DocRect),
                      File(<<"p", "l", "u", "s", ".", "s", "v", "g">>, TRUE, DocPath),
                      File(<<"p", "l", "u", "s", "-", "c", "i", "r", "c", "l", "e", ".", "s", "v", "g">>, TRUE, DocRect) >>),
   adf |-> Listing(<< File(<<"d", "e", "l", "e", "t", "e", ".", "s", "v", "g">>, TRUE, DocPath),
                      File(<<"p", "l", "u", "s", "-", "c", "i", "r", "c", "l", "e", ".", "s", "v", "g">>, TRUE, DocRect) >>)]

\* no directory can be listed
ViewNone == [ep |-> NoListing, ado |-> NoListing, adf |-> NoListing]

\* two file names that differ in case only, an empty directory and a
\* directory that cannot be listed
ViewOdd ==
  [ep |-> Listing(<< File(<<"P", "l", "u", "s", ".", "s", "v", "g">>, TRUE, DocRect),
                     File(<<"p", "l", "u", "s", ".", "s", "v", "g">>, TRUE, DocPath) >>),
   ado |-> Listing(<<>>),
   adf |-> NoListing]

LibraryViews == {ViewFull, ViewNone, ViewOdd}

Descriptions == { <<"d", "e", "l", "e", "t", "e", " ", "i", "c", "o", "n">>, <<"A", "d", "d">>, <<"m", "y", " ", "c", "a", "t">>, <<"U+56FE", "U+6807">> }

Names == { null, <<"p", "l", "u", "s">>, <<"z", "z">> }

Styles == {"default", "element-plus", "ant-design", "flat"}

Models == {NoModel, Tongyi, Doubao, OpenAI}

Reply(t) == [ok |-> TRUE, text |-> t]

\* what a provider request gives: a failure, markup, markup in a code
\* fence, prose, and a text that passes isValidSVG and is no document
ProviderReplies ==
  { [ok |-> FALSE, text |-> <<>>],
    Reply(DocRect),
    Reply(<<Fence, "svg", "\n">> \o DocRect \o <<Fence>>),
    Reply(<<"Sorry,", " ", "no", " ", "icon.">>),
    Reply(<<"<!DOCTYPE", " ", "<svg", " ", "viewBox", " ", "</svg", ">">>) }

Hit(p, n, b) == [icon |-> TRUE, prefix |-> p, name |-> n, fetched |-> TRUE, body |-> b]

\* an entry of the results without an icon field
NoIcon == [icon |-> FALSE, prefix |-> <<>>, name |-> <<>>, fetched |-> FALSE, body |-> <<>>]

\* an entry whose markup request fails
Unfetched(p, n) == [icon |-> TRUE, prefix |-> p, name |-> n, fetched |-> FALSE, body |-> <<>>]

Results(rs) == [ok |-> TRUE, results |-> rs]

\* what the search request gives: a failure, no results, one icon, the same
\* icon twice, entries that are passed over, and more entries than are used
IconifyResponses ==
  { [ok |-> FALSE, results |-> <<>>],
    Results(<<>>),
    Results(<< Hit(<<"m", "d", "i">>, <<"h", "o", "m", "e">>, DocRect) >>),
    Results(<< Hit(<<"m", "d", "i">>, <<"h", "o", "m", "e">>, DocRect), Hit(<<"m", "d", "i">>, <<"h", "o", "m", "e">>, DocPath) >>),
    Results(<< NoIcon, Unfetched(<<"m", "d", "i">>, <<"p", "l", "u", "s">>), Hit(<<"m", "d", "i">>, <<"m", "i", "n", "u", "s">>, <<>>),
               Hit(<<"b", "i">>, <<"p", "l", "u", "s">>, <<"\n">>) >>),
    Results(<< Hit(<<"m", "d", "i">>, <<"a">>, DocRect), Hit(<<"m", "d", "i">>, <<"b">>, DocRect),
               Hit(<<"m", "d", "i">>, <<"c">>, DocRect), Hit(<<"m", "d", "i">>, <<"d">>, DocRect),
               Hit(<<"m", "d", "i">>, <<"e">>, DocRect), Hit(<<"m", "d", "i">>, <<"f">>, DocRect) >>) }

Environments == [keys : SUBSET {Tongyi, Doubao}, fs : LibraryViews]

----------------------------------------------------------------------------
(* generateIcon, generator module.  One action per stage; a stage that
   finds allIcons non-empty does nothing.  calls and origin are kept for
   the properties: the requests made, each with the stage that made it, and the
   stage each record of allIcons comes from; ret is what the caller gets,
   shape telling an array from a single object.  A local constant of the code
   is bound by \E over a one-element set, which gives it its value once. *)

GiIdle ==
  [impl |-> "none", pc |-> "idle", description |-> <<>>, prefix |-> "default",
   model |-> NoModel, name |-> null, searchName |-> <<>>, allIcons |-> <<>>,
   calls |-> <<>>, origin |-> <<>>,
   ret |-> [kind |-> "none", shape |-> "none", value |-> <<>>]]

\* generateIcon(d, p, m, n) is entered
GiCall(d, p, m, n) ==
  [GiIdle EXCEPT !.impl = "pipeline", !.pc = "library", !.description = d,
                 !.prefix = p, !.model = m, !.name = n]

CallsOf(stage, cs) == [i \in 1..Len(cs) |-> [stage |-> stage, call |-> cs[i]]]

OriginOf(stage, icons) == [i \in 1..Len(icons) |-> stage]

\* the record made of a library match
LocalIcon(icon, d, p) ==
  [code |-> 0,
   source |-> IF icon.source = AntDesign THEN AntDesign ELSE ElementPlus,
   name |-> icon.name,
   svg |-> icon.svg,
   rawSvg |-> IF icon.rawSvg # <<>> THEN icon.rawSvg ELSE cleanSvgContent(icon.svg),
   description |-> d, style |-> p, model |-> "local"]

\* the library stage keeping every match of both families
LibraryStepEveryMatch(g, e) ==
  LET Records(searchName, made, found) ==
        [g EXCEPT !.pc = "generation",
                  !.searchName = searchName,
                  !.allIcons = found,
                  !.calls = CallsOf("library", made),
                  !.origin = OriginOf("library", found)]
      Found(searchName, made, localIcons) ==
        Records(searchName, made,
                [i \in 1..Len(localIcons) |->
                   LocalIcon(localIcons[i], g.description, g.prefix)])
      Asked(searchName, elementPlusIcons, antDesignIcons) ==
        Found(searchName,
              IF ~Truthy(searchName) THEN <<>>
              ELSE IF g.prefix = "element-plus" THEN <<"getElementPlusIcons">>
              ELSE IF g.prefix = "ant-design" THEN <<"getAntDesignIcons">>
              ELSE <<"getElementPlusIcons", "getAntDesignIcons">>,
              IF ~Truthy(searchName) THEN <<>>
              ELSE IF g.prefix = "element-plus" THEN elementPlusIcons
              ELSE IF g.prefix = "ant-design" THEN antDesignIcons
              ELSE elementPlusIcons \o antDesignIcons)
      Search(searchName) ==
        Asked(searchName,
              getElementPlusIcons(e.fs, searchName, FALSE),
              getAntDesignIcons(e.fs, searchName, "undefined", FALSE))
  IN Search(IF Truthy(g.name) THEN g.name ELSE generateIconName(g.description))

\* 1. the local library, by the name given or the name made of the
\* description: the frame of the call after the stage
LibraryStep(g, e) ==
  LET Records(searchName, made, found) ==
        [g EXCEPT !.pc = "generation",
                  !.searchName = searchName,
                  !.allIcons = found,
                  !.calls = CallsOf("library", made),
                  !.origin = OriginOf("library", found)]
      Found(searchName, made, localIcons) ==
        Records(searchName, made,
                [i \in 1..Len(localIcons) |->
                   LocalIcon(localIcons[i], g.description, g.prefix)])
      Asked(searchName, elementPlusIcons, antDesignIcons) ==
        Found(searchName,
              IF ~Truthy(searchName) THEN <<>>
              ELSE IF g.prefix = "element-plus" THEN <<"getElementPlusIcons">>
              ELSE IF g.prefix = "ant-design" THEN <<"getAntDesignIcons">>
              ELSE <<"getElementPlusIcons", "getAntDesignIcons">>,
              IF ~Truthy(searchName) THEN <<>>
              ELSE IF g.prefix = "element-plus" THEN elementPlusIcons
              ELSE IF g.prefix = "ant-design" THEN antDesignIcons
              ELSE Take(elementPlusIcons, 1) \o Take(antDesignIcons, 1))
      Search(searchName) ==
        Asked(searchName,
              getElementPlusIcons(e.fs, searchName, FALSE),
              getAntDesignIcons(e.fs, searchName, "undefined", FALSE))
  IN Search(IF Truthy(g.name) THEN g.name ELSE generateIconName(g.description))

LibraryStage ==
  /\ gi.pc = "library"
  /\ gi' = LibraryStep(gi, env)
  /\ UNCHANGED <<env, cat, sh, dd, cleanVars, rq>>

\* the record made of generated markup
AiIcon(svgContent, sn, d, p, usedModel) ==
  [code |-> 0, source |-> AIGenerated, name |-> sn, svg |-> svgContent,
   rawSvg |-> cleanSvgContent(svgContent),
   description |-> d, style |-> p, model |-> usedModel]

\* the generation stage without `if (allIcons.length === 0)`
GenerationStageUnguarded ==
  /\ gi.pc = "generation"
  /\ \E reply \in ProviderReplies :
     \E got \in {generateSVGCode(env.keys, env.fs, gi.description, gi.prefix,
                                 gi.model, reply)} :
     \E usedModel \in {IF gi.model # NoModel THEN gi.model
                       ELSE selectAvailableModel(env.keys)} :
     \E made \in {IF ~got.threw /\ isValidSVG(got.text)
                  THEN << AiIcon(got.text, gi.searchName, gi.description,
                                 gi.prefix, usedModel) >>
                  ELSE <<>>} :
       gi' = [gi EXCEPT !.pc = "index",
                       !.allIcons = gi.allIcons \o made,
                       !.calls = gi.calls \o CallsOf("generation", got.calls),
                       !.origin = gi.origin \o OriginOf("generation", made)]
  /\ UNCHANGED <<env, cat, sh, dd, cleanVars, rq>>

\* 2. a provider, when the library gave nothing; a failure is passed over
GenerationStep(g, e, reply) ==
  LET Made(got, made) ==
        IF g.allIcons # <<>> THEN [g EXCEPT !.pc = "index"]
        ELSE [g EXCEPT !.pc = "index",
                       !.allIcons = made,
                       !.calls = g.calls \o CallsOf("generation", got.calls),
                       !.origin = OriginOf("generation", made)]
      Got(got, usedModel) ==
        Made(got,
             IF ~got.threw /\ isValidSVG(got.text)
             THEN << AiIcon(got.text, g.searchName, g.description,
                            g.prefix, usedModel) >>
             ELSE <<>>)
  IN Got(generateSVGCode(e.keys, e.fs, g.description, g.prefix, g.model, reply),
         IF g.model # NoModel THEN g.model ELSE selectAvailableModel(e.keys))

GenerationStage ==
  /\ gi.pc = "generation"
  /\ \E reply \in ProviderReplies : gi' = GenerationStep(gi, env, reply)
  /\ UNCHANGED <<env, cat, sh, dd, cleanVars, rq>>

\* 3. the keyword index, when there is still nothing
IndexStep(g, response) ==
  LET Got(got) ==
        IF g.allIcons # <<>> THEN [g EXCEPT !.pc = "stock"]
        ELSE [g EXCEPT !.pc = "stock",
                       !.allIcons = got.icons,
                       !.calls = g.calls \o CallsOf("index", got.calls),
                       !.origin = OriginOf("index", got.icons)]
  IN Got(searchIconFromIconify(
           IF Truthy(g.name) THEN g.name ELSE g.description, response))

IndexStage ==
  /\ gi.pc = "index"
  /\ \E response \in IconifyResponses : gi' = IndexStep(gi, response)
  /\ UNCHANGED <<env, cat, sh, dd, cleanVars, rq>>

\* the record made by the rules, marked as a genuine match
DefaultIconGenuine(sn, d, p) ==
  [code |-> 0, source |-> AIGenerated, name |-> sn,
   svg |-> generateSVGByRules(d, p),
   rawSvg |-> cleanSvgContent(generateSVGByRules(d, p)),
   description |-> d, style |-> p, model |-> "default"]

\* the record made by the rules
DefaultIcon(sn, d, p) ==
  [code |-> -1, source |-> AIGenerated, name |-> sn,
   svg |-> generateSVGByRules(d, p),
   rawSvg |-> cleanSvgContent(generateSVGByRules(d, p)),
   description |-> d, style |-> p, model |-> "default"]

\* 4. the rules, when there is still nothing; then allIcons is returned
StockStep(g) ==
  LET Final(made, final) ==
        [g EXCEPT !.pc = "done",
                  !.allIcons = final,
                  !.calls = IF g.allIcons # <<>> THEN g.calls
                            ELSE g.calls \o CallsOf("stock", <<"generateSVGByRules">>),
                  !.origin = IF g.allIcons # <<>> THEN g.origin
                             ELSE OriginOf("stock", made),
                  !.ret = [kind |-> "returned", shape |-> "array",
                           value |-> final]]
      Made(made) == Final(made, IF g.allIcons # <<>> THEN g.allIcons ELSE made)
  IN Made(<< DefaultIcon(g.searchName, g.description, g.prefix) >>)

StockStage ==
  /\ gi.pc = "stock"
  /\ gi' = StockStep(gi)
  /\ UNCHANGED <<env, cat, sh, dd, cleanVars, rq>>

----------------------------------------------------------------------------
(* services/iconGenerator.js with services/icons.js: the generateIcon the
   facades under src/ load.  It takes no name, asks the remote directories
   only, and returns one record, not an array. *)

HuggingFace == "huggingface"

\* the cleanSvgContent both files define
legacyCleanSvgContent(s) ==
  LET Sized(a) == IF ~Includes(a, <<"width", "=">>) /\ ~Includes(a, <<"height", "=">>)
                  THEN InsertInSvgTag(a, SizeAttrsPx)
                  ELSE a
  IN Sized(Trim(StripXmlDecl(s)))

\* the body the two adapters of services/icons.js share
legacyReadIcons(listing, source, term) ==
  IF ~listing.ok THEN <<>>
  ELSE LET Icons(got) ==
             [i \in 1..Len(got) |->
                [source |-> source,
                 name |-> toCamelCase(ReplaceFirst(got[i].name, DotSvg, <<>>)),
                 svg |-> got[i].content,
                 rawSvg |-> legacyCleanSvgContent(got[i].content)]]
           matched == SelectSeq(listing.files,
                        LAMBDA f : /\ EndsWith(f.name, DotSvg)
                                   /\ Includes(toLowerCase(f.name), toLowerCase(term)))
       IN Icons(SelectSeq(matched, LAMBDA f : f.readable))

legacyGetElementPlusIcons(view, term) == legacyReadIcons(view.ep, ElementPlus, term)

\* ANT_DESIGN_REPO_URL is the directory of the filled icons
legacyGetAntDesignIcons(view, term) == legacyReadIcons(view.adf, AntDesign, term)

legacyHasApiKeyForModel(keys, m) == m = HuggingFace \/ m \in keys

\* the priority list, then the provider that needs no key
legacySelectAvailableModel(keys) ==
  LET modelPriority == <<Tongyi, "wenxin", "zhipu", "kimi", Doubao, OpenAI>>
      usable == SelectSeq(modelPriority, LAMBDA m : legacyHasApiKeyForModel(keys, m))
  IN IF usable # <<>> THEN Head(usable) ELSE HuggingFace

legacyLibraryHits(view, keyword, style) ==
  (IF style \in {"default", "element-plus"}
   THEN legacyGetElementPlusIcons(view, keyword) ELSE <<>>)
  \o (IF style \in {"default", "ant-design"}
      THEN legacyGetAntDesignIcons(view, keyword) ELSE <<>>)

RECURSIVE legacyLibraryHitsAll(_, _, _)
legacyLibraryHitsAll(view, keywords, style) ==
  IF keywords = <<>> THEN <<>>
  ELSE legacyLibraryHits(view, Head(keywords), style)
       \o legacyLibraryHitsAll(view, Tail(keywords), style)

legacySearchIconFromLibrary(view, d, style) ==
  LET First(found) ==
        IF found = <<>> THEN null
        ELSE IF found[1].rawSvg # <<>> THEN found[1].rawSvg ELSE found[1].svg
      Search(searchKeywords) ==
        IF searchKeywords = <<>> THEN null
        ELSE First(uniqueIcons(legacyLibraryHitsAll(view, searchKeywords, style)))
  IN Search(extractSearchKeywords(d))

generateSVGWithOpenAI(keys, reply) ==
  ProviderText(keys, OpenAI, "axios.post openai", reply)

legacyGenerateSVGCode(keys, view, d, style, m, reply) ==
  IF m = OpenAI /\ legacyHasApiKeyForModel(keys, OpenAI)
  THEN generateSVGWithOpenAI(keys, reply)
  ELSE IF m = Tongyi THEN generateSVGWithTongyi(keys, reply)
  ELSE IF legacyHasApiKeyForModel(keys, OpenAI) THEN generateSVGWithOpenAI(keys, reply)
  ELSE IF legacyHasApiKeyForModel(keys, Tongyi) THEN generateSVGWithTongyi(keys, reply)
  ELSE LET Found(svgFromSearch) ==
             IF Truthy(svgFromSearch)
             THEN [threw |-> FALSE, text |-> svgFromSearch,
                   calls |-> <<"searchIconFromLibrary">>]
             ELSE [threw |-> TRUE, text |-> <<>>,
                   calls |-> <<"searchIconFromLibrary">>]
       IN Found(legacySearchIconFromLibrary(view, d, style))

AIGeneratedEn == <<"A", "I", " ", "G", "e", "n", "e", "r", "a", "t", "e", "d">>

AIGeneratedFallback == <<"A", "I", " ", "G", "e", "n", "e", "r", "a", "t", "e", "d", " ", "(", "F", "a", "l", "l", "b", "a", "c", "k", ")">>

LegacyModels == {NoModel, Tongyi, OpenAI}

LegacyEnvironments == [keys : SUBSET {Tongyi, OpenAI}, fs : LibraryViews]

\* generateIcon(d, p, m) of services/iconGenerator.js is entered
LegacyCall(d, p, m) ==
  [GiIdle EXCEPT !.impl = "legacy", !.pc = "legacy", !.description = d,
                 !.prefix = p, !.model = m]

\* the record returned when the markup is had and valid
LegacyIcon(svgContent, iconName, d, p, usedModel) ==
  [code |-> 0, source |-> AIGeneratedEn, name |-> iconName, svg |-> svgContent,
   rawSvg |-> legacyCleanSvgContent(svgContent),
   description |-> d, style |-> p, model |-> usedModel]

\* the record returned otherwise
LegacyFallback(iconName, d, p) ==
  [code |-> -1, source |-> AIGeneratedFallback, name |-> iconName, svg |-> <<>>,
   rawSvg |-> <<>>, description |-> d, style |-> p, model |-> "fallback"]

\* the whole of that generateIcon: one attempt, then the record
LegacyGenerateIcon ==
  /\ gi.pc = "legacy"
  /\ \E reply \in ProviderReplies :
     \E iconName \in {generateIconName(gi.description)} :
     \E got \in {legacyGenerateSVGCode(env.keys, env.fs, gi.description,
                                       gi.prefix, gi.model, reply)} :
     \E usedModel \in {IF gi.model # NoModel THEN gi.model
                       ELSE legacySelectAvailableModel(env.keys)} :
     \E ok \in {~got.threw /\ isValidSVG(got.text)} :
     \E icon \in {IF ok
                  THEN LegacyIcon(got.text, iconName, gi.description, gi.prefix, usedModel)
                  ELSE LegacyFallback(iconName, gi.description, gi.prefix)} :
       gi' = [gi EXCEPT !.pc = "done",
                       !.searchName = iconName,
                       !.allIcons = <<icon>>,
                       !.calls = CallsOf("generation", got.calls),
                       !.origin = <<IF ok THEN "generation" ELSE "fallback">>,
                       !.ret = [kind |-> "returned", shape |-> "object",
                                value |-> <<icon>>]]
  /\ UNCHANGED <<env, cat, sh, dd, cleanVars, rq>>

----------------------------------------------------------------------------
(* The specification of generateIcon *)

CatIdle == [op |-> "none", pc |-> "idle"]

ShIdle == [facade |-> "none", pc |-> "idle"]

DdIdle == [input |-> <<>>, output |-> <<>>, done |-> FALSE]

\* no requests in flight at once
RqIdle == <<>>

CleanIdle ==
  /\ clImpl = "generator"
  /\ clKind = "string"
  /\ clIn = <<>>
  /\ clOut = <<>>

\* a caller enters generateIcon, of the generator module or of
\* services/iconGenerator.js, with some arguments in some environment
Init ==
  /\ \/ /\ env \in Environments
        /\ gi \in {GiCall(d, p, m, n) : d \in Descriptions, p \in Styles,
                                        m \in Models, n \in Names}
     \/ /\ env \in LegacyEnvironments
        /\ gi \in {LegacyCall(d, p, m) : d \in Descriptions, p \in Styles,
                                         m \in LegacyModels}
  /\ cat = CatIdle
  /\ sh = ShIdle
  /\ dd = DdIdle
  /\ CleanIdle
  /\ rq = RqIdle

Next ==
  \/ LibraryStage
  \/ GenerationStage
  \/ IndexStage
  \/ StockStage
  \/ LegacyGenerateIcon

Spec == Init /\ [][Next]_vars

----------------------------------------------------------------------------
(* The canonicalizers applied repeatedly to one argument *)

\* a call cleanSvgContent(x): neither definition in effect tests its
\* argument, so x.replace throws a TypeError when x is null or undefined
CleanCall(impl, kind, s) ==
  IF kind # "string" THEN [threw |-> TRUE, value |-> <<>>]
  ELSE [threw |-> FALSE,
        value |-> IF impl = "generator" THEN cleanSvgContent(s)
                  ELSE iconsCleanSvgContent(s)]

CleanInit ==
  /\ clImpl \in {"generator", "icons"}
  /\ clKind \in {"string", "null", "undefined"}
  /\ clIn \in (IF clKind = "string" THEN CleanInputs ELSE {<<>>})
  /\ clOut = <<>>
  /\ env = [keys |-> {}, fs |-> ViewNone]
  /\ gi = GiIdle
  /\ cat = CatIdle
  /\ sh = ShIdle
  /\ dd = DdIdle
  /\ rq = RqIdle

\* apply the canonicalizer to the argument, then to its own result
CleanApply ==
  /\ Len(clOut) < MaxApply
  /\ IF clOut = <<>> THEN TRUE ELSE ~clOut[Len(clOut)].threw
  /\ clOut' = Append(clOut,
                IF clOut = <<>> THEN CleanCall(clImpl, clKind, clIn)
                ELSE CleanCall(clImpl, "string", clOut[Len(clOut)].value))
  /\ UNCHANGED <<clImpl, clKind, clIn, env, gi, cat, sh, dd, rq>>

SpecClean == CleanInit /\ [][CleanApply]_vars

----------------------------------------------------------------------------
(* Category expansion, generator module: generateIconsByCategory and
   searchIconsByCategory.  Each asks generateIconKeywords for the keywords
   and then takes them one after the other.  generateIconsByCategory calls
   generateIcon for a keyword and waits for what it returns; the stages of
   that call are the actions above.  Neither adapter nor generateIcon nor
   generateIconKeywords throws, so the catch blocks are never entered. *)

\* greatest count asked for
MaxCount == 2

DefaultKeyword == <<"U+9ED8", "U+8BA4", "U+56FE", "U+6807">>

\* generateIconKeywords(category, count), reply being what the provider
\* request gives: without a provider, and when the request throws, the
\* default keyword alone
generateIconKeywords(keys, count, reply) ==
  IF selectAvailableModel(keys) = NoModel \/ ~reply.ok THEN <<DefaultKeyword>>
  ELSE Take(NameArray(reply.text), count)

\* `${allIcons.length + 1}` and `${i + 1}`, for a number below ten
NumberText(n) == <<Digits[n + 1]>>

\* the record the while loop of generateIconsByCategory adds as the n-th
CategoryDefaultIcon(category, prefix, n) ==
  LET Made(defaultSvg) ==
        [code |-> -1, source |-> AIGenerated,
         name |-> generateIconName(category) \o <<"-">> \o NumberText(n),
         svg |-> defaultSvg, rawSvg |-> cleanSvgContent(defaultSvg),
         description |-> category \o <<"U+56FE", "U+6807">>, style |-> prefix, model |-> "default"]
  IN Made(generateSVGByRules(category, prefix))

\* while (allIcons.length < count) allIcons.push(defaultIcon)
RECURSIVE PadIcons(_, _, _, _)
PadIcons(allIcons, category, prefix, count) ==
  IF Len(allIcons) >= count THEN allIcons
  ELSE PadIcons(Append(allIcons, CategoryDefaultIcon(category, prefix, Len(allIcons) + 1)),
                category, prefix, count)

\* the library searches of one keyword in searchIconsByCategory, format
\* being null and useLocal false
CategoryLibraryIcons(view, keyword, style, prefix) ==
  LET OnlyElementPlus == prefix = "element-plus" \/ style = "element-plus"
      OnlyAntDesign == prefix = "ant-design" \/ style = "ant-design"
  IN (IF OnlyElementPlus \/ ~OnlyAntDesign
      THEN getElementPlusIcons(view, keyword, FALSE) ELSE <<>>)
     \o (IF ~OnlyElementPlus
         THEN getAntDesignIcons(view, keyword, "null", FALSE) ELSE <<>>)

\* iconifyIcons.map(icon => ({...icon, code: 0, description, style, model}))
IconifyRecords(icons, searchDescription, style) ==
  [i \in 1..Len(icons) |->
     [source |-> icons[i].source, name |-> icons[i].name, svg |-> icons[i].svg,
      rawSvg |-> icons[i].rawSvg, code |-> 0, description |-> searchDescription,
      style |-> style, model |-> "iconify"]]

\* generateIconsByCategory(category, count, prefix, null) or
\* searchIconsByCategory(category, count, style, prefix) is entered
CatCall(op, category, count, style, prefix) ==
  [op |-> op, pc |-> "keywords", category |-> category, count |-> count,
   style |-> style, prefix |-> prefix, keywords |-> <<>>, usedKeywords |-> {},
   allIcons |-> <<>>, ret |-> <<>>]

Categories == { <<"d", "e", "l", "e", "t", "e">>, <<"U+529E", "U+516C">> }

\* what the provider request of generateIconKeywords gives: a failure, a
\* keyword twice, blanks and empty entries, no keyword at all, keywords with
\* no icon in any library
KeywordReplies ==
  { [ok |-> FALSE, text |-> <<>>],
    Reply(<<"d", "e", "l", "e", "t", "e", ",", "d", "e", "l", "e", "t", "e">>),
    Reply(<<" ", "p", "l", "u", "s", " ", ",", " ", ",", "e", "d", "i", "t">>),
    Reply(<<",">>),
    Reply(<<"U+5220", "U+9664", ",", "z", "z">>) }

CategoryEnvironments == [keys : {{}, {Tongyi}}, fs : {ViewFull, ViewOdd}]

CatInit ==
  /\ env \in CategoryEnvironments
  /\ cat \in {CatCall("generate", c, n, "default", p) :
                c \in Categories, n \in 1..MaxCount, p \in {"default", "element-plus"}}
             \cup
             {CatCall("search", c, n, s, p) :
                c \in Categories, n \in 1..MaxCount,
                s \in {"default", "ant-design"}, p \in {"null", "element-plus"}}
  /\ gi = GiIdle
  /\ sh = ShIdle
  /\ dd = DdIdle
  /\ CleanIdle
  /\ rq = RqIdle

\* const iconKeywords = await generateIconKeywords(category, count)
CategoryKeywords ==
  /\ cat.pc = "keywords"
  /\ \E reply \in KeywordReplies :
     \E iconKeywords \in {generateIconKeywords(env.keys, cat.count, reply)} :
       cat' = [cat EXCEPT !.keywords = iconKeywords,
                          !.pc = IF iconKeywords = <<>> THEN "finish" ELSE "loop"]
  /\ UNCHANGED <<env, gi, sh, dd, cleanVars, rq>>

\* generateIconsByCategory: generateIcon is called for the next keyword
GenerateLoopCall ==
  /\ cat.op = "generate"
  /\ cat.pc = "loop"
  /\ gi' = GiCall(cat.category \o <<"U+56FE", "U+6807", "U+FF1A">> \o Head(cat.keywords), cat.prefix,
                  NoModel, Head(cat.keywords))
  /\ cat' = [cat EXCEPT !.pc = "await"]
  /\ UNCHANGED <<env, sh, dd, cleanVars, rq>>

\* generateIconsByCategory: the first record of what generateIcon returns
\* is kept, and the loop ends with the keywords or with count records
GenerateLoopCollect ==
  /\ cat.op = "generate"
  /\ cat.pc = "await"
  /\ gi.pc = "done"
  /\ \E all \in {IF Len(gi.ret.value) > 0 THEN Append(cat.allIcons, gi.ret.value[1])
                 ELSE cat.allIcons} :
       cat' = [cat EXCEPT !.allIcons = all,
                          !.keywords = Tail(cat.keywords),
                          !.pc = IF Len(all) >= cat.count \/ Tail(cat.keywords) = <<>>
                                 THEN "finish" ELSE "loop"]
  /\ gi' = GiIdle
  /\ UNCHANGED <<env, sh, dd, cleanVars, rq>>

\* generateIconsByCategory: the records are padded to count and returned
GenerateReturn ==
  /\ cat.op = "generate"
  /\ cat.pc = "finish"
  /\ \E all \in {PadIcons(cat.allIcons, cat.category, cat.prefix, cat.count)} :
       cat' = [cat EXCEPT !.pc = "done", !.allIcons = all, !.ret = all]
  /\ UNCHANGED <<env, gi, sh, dd, cleanVars, rq>>

\* searchIconsByCategory: one turn of the loop.  A keyword seen before is
\* passed over; the index is asked when the libraries give nothing
SearchLoop ==
  /\ cat.op = "search"
  /\ cat.pc = "loop"
  /\ \E response \in IconifyResponses :
     \E keyword \in {Head(cat.keywords)} :
     \E searchDescription \in {cat.category \o <<" ">> \o keyword} :
     \E local \in {CategoryLibraryIcons(env.fs, keyword, cat.style, cat.prefix)} :
     \E iconsFound \in
          {IF local # <<>> THEN local
           ELSE IconifyRecords(searchIconFromIconify(searchDescription, response).icons,
                               searchDescription, cat.style)} :
     \E all \in {IF keyword \in cat.usedKeywords THEN cat.allIcons
                 ELSE cat.allIcons \o iconsFound} :
       cat' = [cat EXCEPT !.usedKeywords = cat.usedKeywords \cup {keyword},
                          !.allIcons = all,
                          !.keywords = Tail(cat.keywords),
                          !.pc = IF \/ keyword \notin cat.usedKeywords /\ Len(all) >= cat.count
                                    \/ Tail(cat.keywords) = <<>>
                                 THEN "finish" ELSE "loop"]
  /\ UNCHANGED <<env, gi, sh, dd, cleanVars, rq>>

\* searchIconsByCategory: uniqueIcons.slice(0, count) is returned
SearchReturn ==
  /\ cat.op = "search"
  /\ cat.pc = "finish"
  /\ cat' = [cat EXCEPT !.pc = "done",
                        !.ret = Take(uniqueIcons(cat.allIcons), cat.count)]
  /\ UNCHANGED <<env, gi, sh, dd, cleanVars, rq>>

CatNext ==
  \/ CategoryKeywords
  \/ GenerateLoopCall
  \/ LibraryStage
  \/ GenerationStage
  \/ IndexStage
  \/ StockStage
  \/ GenerateLoopCollect
  \/ GenerateReturn
  \/ SearchLoop
  \/ SearchReturn

SpecCategory == CatInit /\ [][CatNext]_vars

----------------------------------------------------------------------------
(* The search facades: the search_icons tool of mcp-server.js and the route
   GET /api/icons/search of cli.js.  Both load services/icons.js, whose
   adapters read the name alone: the format and the useLocal the tool passes
   on are not looked at. *)

\* the searches of one term: one family when the prefix (the style, for the
\* route) names it, both families otherwise, Element Plus first
FamilyIcons(view, term, prefix) ==
  (IF prefix # "ant-design" THEN legacyGetElementPlusIcons(view, term) ELSE <<>>)
  \o (IF prefix # "element-plus" THEN legacyGetAntDesignIcons(view, term) ELSE <<>>)

RECURSIVE WordIcons(_, _, _)
WordIcons(view, words, prefix) ==
  IF words = <<>> THEN <<>>
  ELSE FamilyIcons(view, Head(words), prefix) \o WordIcons(view, Tail(words), prefix)

RECURSIVE JoinHyphen(_)
JoinHyphen(words) ==
  IF Len(words) <= 1 THEN Flatten(words)
  ELSE Head(words) \o <<"-">> \o JoinHyphen(Tail(words))

\* the tool's search of one name: a name with a space in it is asked for
\* with each run of whitespace made a hyphen (the name is trimmed, so the
\* runs are between words) and, when that finds nothing, word by word
McpNameIcons(view, name, prefix) ==
  LET Words(found) == IF found # <<>> THEN found
                      ELSE WordIcons(view, SplitWords(name), prefix)
  IN IF Includes(name, <<" ">>)
     THEN Words(FamilyIcons(view, JoinHyphen(SplitWords(name)), prefix))
     ELSE WordIcons(view, <<name>>, prefix)

RECURSIVE McpAllIcons(_, _, _)
McpAllIcons(view, nameArray, prefix) ==
  IF nameArray = <<>> THEN <<>>
  ELSE McpNameIcons(view, Head(nameArray), prefix)
       \o McpAllIcons(view, Tail(nameArray), prefix)

\* icon.source || '-', and the like
OrDash(s) == IF s = <<>> THEN <<"-">> ELSE s

RECURSIVE MarkdownRows(_)
MarkdownRows(icons) ==
  IF icons = <<>> THEN <<>>
  ELSE <<"|", " ">> \o OrDash(Head(icons).source) \o <<" ", "|", " ">>
       \o OrDash(Head(icons).name) \o <<" ", "|", " ">>
       \o Trim(RemoveLineBreaks(IF Head(icons).rawSvg # <<>> THEN Head(icons).rawSvg
                                ELSE OrDash(Head(icons).svg)))
       \o <<" ", "|", "\n">>
       \o MarkdownRows(Tail(icons))

iconsToMarkdownTable(icons) ==
  IF icons = <<>> THEN <<>>
  ELSE <<"|", " ", "U+56FE", "U+6807", "U+6765", "U+6E90", " ", "|", " ", "U+56FE", "U+6807", "U+540D", "U+79F0", " ", "|", " ", "U+56FE", "U+6807", " ", "S", "V", "G", " ", "U+4EE3", "U+7801", " ", "|">> \o <<"\n">>
       \o <<"|", "-", "-", "-", "-", "-", "-", "-", "-", "-", "|", "-", "-", "-", "-", "-", "-", "-", "-", "-", "|", "-", "-", "-", "-", "-", "-", "-", "-", "-", "-", "-", "-", "-", "|">> \o <<"\n">>
       \o MarkdownRows(icons)

\* a request reaches a facade; the tool's schema lets only a string through
\* as names, and the tool reads no name
ShCall(facade, names, name, style) ==
  [facade |-> facade, pc |-> "called", names |-> names, name |-> name,
   style |-> style, response |-> [none |-> TRUE]]

SearchNames ==
  { <<>>, <<",">>, <<" ", ",", " ">>, <<"p", "l", "u", "s">>, <<"p", "l", "u", "s", ",", "d", "e", "l", "e", "t", "e">>, <<"a", "d", "d", " ", "l", "o", "c", "a", "t", "i", "o", "n">>, <<"z", "z", " ", "y", "y", ",", " ", "p", "l", "u", "s">> }

SearchStyles == {"undefined", "default", "element-plus", "ant-design"}

ShInit ==
  /\ env \in [keys : {{}}, fs : LibraryViews]
  /\ sh \in {ShCall("mcp", ns, undefined, p) : ns \in SearchNames, p \in SearchStyles}
            \cup
            {ShCall("http", ns, n, s) :
               ns \in SearchNames \cup {undefined}, n \in {undefined, <<"e", "d", "i", "t">>},
               s \in SearchStyles}
  /\ gi = GiIdle
  /\ cat = CatIdle
  /\ dd = DdIdle
  /\ CleanIdle
  /\ rq = RqIdle

\* what the search_icons tool answers
McpSearchResponse(view, names, style) ==
  LET Answer(uniqueIconsFound) ==
        IF names = <<>>
        THEN [isError |-> TRUE, data |-> <<>>,
              text |-> <<"Names parameter is required">>]
        ELSE [isError |-> FALSE, data |-> uniqueIconsFound,
              text |-> iconsToMarkdownTable(uniqueIconsFound)]
  IN Answer(uniqueIcons(McpAllIcons(view, NameArray(names), style)))

\* the search_icons tool
McpSearchIcons ==
  /\ sh.facade = "mcp"
  /\ sh.pc = "called"
  /\ sh' = [sh EXCEPT !.pc = "done",
                      !.response = McpSearchResponse(env.fs, sh.names, sh.style)]
  /\ UNCHANGED <<env, gi, cat, dd, cleanVars, rq>>

\* GET /api/icons/search
HttpSearchIcons ==
  /\ sh.facade = "http"
  /\ sh.pc = "called"
  /\ \E searchTerms \in {IF sh.names # undefined /\ sh.names # <<>> THEN sh.names
                         ELSE sh.name} :
     \E nameArray \in {IF searchTerms = undefined THEN <<>> ELSE NameArray(searchTerms)} :
       sh' = [sh EXCEPT !.pc = "done",
                        !.response =
                          IF searchTerms = undefined \/ searchTerms = <<>>
                          THEN [status |-> 400, body |-> <<>>,
                                error |-> <<"Name or names parameter is required">>]
                          ELSE IF nameArray = <<>>
                          THEN [status |-> 400, body |-> <<>>,
                                error |-> <<"At least one valid name is required">>]
                          ELSE [status |-> 200, error |-> <<>>,
                                body |-> uniqueIcons(WordIcons(env.fs, nameArray, sh.style))]]
  /\ UNCHANGED <<env, gi, cat, dd, cleanVars, rq>>

ShNext == McpSearchIcons \/ HttpSearchIcons

SpecSearch == ShInit /\ [][ShNext]_vars

----------------------------------------------------------------------------
(* The de-duplication of a result list, as the search facades and
   searchIconsByCategory do it *)

\* greatest length of the list
MaxIcons == 3

\* records that differ in their markup when they agree in source and name
DedupeRecords ==
  [source : {ElementPlus, AntDesign}, name : { <<"P", "l", "u", "s">>, <<"E", "d", "i", "t">> },
   svg : {DocRect, DocPath}]

DdInit ==
  /\ dd \in {[input |-> s, output |-> <<>>, done |-> FALSE] :
               s \in SeqsUpTo(DedupeRecords, MaxIcons)}
  /\ env = [keys |-> {}, fs |-> ViewNone]
  /\ gi = GiIdle
  /\ cat = CatIdle
  /\ sh = ShIdle
  /\ CleanIdle
  /\ rq = RqIdle

\* const uniqueIcons = Array.from(new Map(allIcons.map(...)).values())
Dedupe ==
  /\ ~dd.done
  /\ dd' = [dd EXCEPT !.output = uniqueIcons(dd.input), !.done = TRUE]
  /\ UNCHANGED <<env, gi, cat, sh, cleanVars, rq>>

SpecDedupe == DdInit /\ [][Dedupe]_vars

----------------------------------------------------------------------------
(* Two requests in flight at once.  A handler is an async function: it runs
   from one await to the next without a break, and between two of its
   awaits the event loop may run the other request.  What a handler keeps
   between awaits is in the locals of its own activation (const allIcons =
   [] is declared inside generateIcon and inside the tool's handler); the
   modules declare no variable outside their functions, and the
   environment and the library files are read only.  The answers of the
   remote endpoints to a request are fixed when the request is made. *)

Requests == {1, 2}

\* the activation of generateIcon(d, p, m, n), with the answers it will get
GenFrame(d, p, m, n, reply, response) ==
  [op |-> "generateIcon", g |-> GiCall(d, p, m, n), reply |-> reply,
   response |-> response, met |-> FALSE]

\* the activation of the search_icons handler
SearchFrame(names, prefix) ==
  [op |-> "search_icons", pc |-> "called", names |-> names, prefix |-> prefix,
   nameArray |-> <<>>, allIcons |-> <<>>, ret |-> [none |-> TRUE],
   met |-> FALSE]

FrameDone(f) == IF f.op = "generateIcon" THEN f.g.pc = "done" ELSE f.pc = "done"

FrameResult(f) == IF f.op = "generateIcon" THEN f.g.ret ELSE f.ret

\* the handler of search_icons from one await to the next: up to the loop,
\* one name of the loop, and what follows the loop
SearchStep(f, e) ==
  IF f.pc = "called"
  THEN IF f.names = <<>>
       THEN [f EXCEPT !.pc = "done",
                      !.ret = [isError |-> TRUE, data |-> <<>>,
                               text |-> <<"Names parameter is required">>]]
       ELSE [f EXCEPT !.pc = "loop", !.nameArray = NameArray(f.names)]
  ELSE IF f.nameArray # <<>>
  THEN [f EXCEPT !.nameArray = Tail(f.nameArray),
                 !.allIcons = f.allIcons
                                \o McpNameIcons(e.fs, Head(f.nameArray), f.prefix)]
  ELSE LET Answer(uniqueIconsFound) ==
             [f EXCEPT !.pc = "done",
                       !.ret = [isError |-> FALSE, data |-> uniqueIconsFound,
                                text |-> iconsToMarkdownTable(uniqueIconsFound)]]
       IN Answer(uniqueIcons(f.allIcons))

\* generateIcon from one stage to the next
GenStep(f, e) ==
  [f EXCEPT !.g = IF f.g.pc = "library" THEN LibraryStep(f.g, e)
                  ELSE IF f.g.pc = "generation" THEN GenerationStep(f.g, e, f.reply)
                  ELSE IF f.g.pc = "index" THEN IndexStep(f.g, f.response)
                  ELSE StockStep(f.g)]

FrameStep(f, e) == IF f.op = "generateIcon" THEN GenStep(f, e) ELSE SearchStep(f, e)

FrameStarted(f) ==
  IF f.op = "generateIcon" THEN f.g.pc # "library" ELSE f.pc # "called"

\* the other request has begun and has not returned
InFlight(r) == \E q \in Requests \ {r} : FrameStarted(rq[q]) /\ ~FrameDone(rq[q])

\* the step as it would be with allIcons declared once for the module
RequestStepSharedIcons(r) ==
  /\ ~FrameDone(rq[r])
  /\ \E after \in {FrameStep(rq[r], env)} :
       rq' = [q \in Requests |->
                IF q = r THEN [after EXCEPT !.met = rq[r].met \/ InFlight(r)]
                ELSE IF rq[q].op = "generateIcon" /\ after.op = "generateIcon"
                     THEN [rq[q] EXCEPT !.g.allIcons = after.g.allIcons]
                ELSE IF rq[q].op = "search_icons" /\ after.op = "search_icons"
                     THEN [rq[q] EXCEPT !.allIcons = after.allIcons]
                ELSE rq[q]]
  /\ UNCHANGED <<env, gi, cat, sh, dd, cleanVars>>

\* the event loop resumes request r, which runs to its next await; met
\* records that the other request was in flight at one of r's steps
RequestStep(r) ==
  /\ ~FrameDone(rq[r])
  /\ \E after \in {FrameStep(rq[r], env)} :
       rq' = [rq EXCEPT ![r] = [after EXCEPT !.met = rq[r].met \/ InFlight(r)]]
  /\ UNCHANGED <<env, gi, cat, sh, dd, cleanVars>>

ConcurrentDescriptions == {<<"d", "e", "l", "e", "t", "e", " ", "i", "c", "o", "n">>, <<"m", "y", " ", "c", "a", "t">>}

ConcurrentReplies == {[ok |-> FALSE, text |-> <<>>], Reply(DocRect)}

ConcurrentResponses ==
  {Results(<<>>), Results(<< Hit(<<"m", "d", "i">>, <<"h", "o", "m", "e">>, DocRect) >>)}

ConcurrentNames == {<<"p", "l", "u", "s", ",", "d", "e", "l", "e", "t", "e">>, <<"a", "d", "d", " ", "l", "o", "c", "a", "t", "i", "o", "n">>}

ConcurrentFrames ==
  {GenFrame(d, "default", NoModel, null, reply, response) :
     d \in ConcurrentDescriptions, reply \in ConcurrentReplies,
     response \in ConcurrentResponses}
  \cup {SearchFrame(ns, "undefined") : ns \in ConcurrentNames}

ConcurrentInit ==
  /\ env \in [keys : {{}, {Tongyi}}, fs : {ViewFull}]
  /\ rq \in [Requests -> ConcurrentFrames]
  /\ gi = GiIdle
  /\ cat = CatIdle
  /\ sh = ShIdle
  /\ dd = DdIdle
  /\ CleanIdle

ConcurrentNext == \E r \in Requests : RequestStep(r)

SpecConcurrent == ConcurrentInit /\ [][ConcurrentNext]_vars

----------------------------------------------------------------------------
(* The remote calls of the adapters.  An adapter awaits one request at a
   time; axios rejects a request whose timeout option is positive when that
   time has passed without a response, and waits without end when the
   option is absent (its default is 0, no timeout).  The endpoint of a
   request answers, fails, or stays silent. *)

NoCall == [call |-> "none", timeout |-> 0, silent |-> FALSE]

\* the timeout option of the adapter's request: the first request of the
\* adapter ("first") or the request of one icon's markup ("svg")
AxiosTimeout(adapter, call) ==
  IF adapter \in {"getElementPlusIcons", "getAntDesignIconsByFormat"} THEN 0
  ELSE IF adapter = "searchIconFromIconify"
       THEN (IF call = "first" THEN 30000 ELSE 10000)
  ELSE 30000

\* an adapter is called with the remote directories in use
RemoteFrame(adapter, term) ==
  [op |-> "remote", adapter |-> adapter, term |-> term, pc |-> "called",
   pending |-> NoCall, queue |-> <<>>, icons |-> <<>>,
   ret |-> [kind |-> "none", value |-> <<>>]]

\* what the first request of the adapter gives when it answers: the files
\* of the directory that match, the icons of the search, or a text
RemoteMatches(f, view) ==
  LET FileNames(files) == [i \in 1..Len(files) |-> files[i].name]
      Matched(listing, processedName) ==
        FileNames(SelectSeq(listing.files,
                            LAMBDA x : MatchesFile(x.name, processedName, FALSE)))
  IN IF f.adapter = "getElementPlusIcons"
     THEN Matched(view.ep, processIconName(f.term))
     ELSE IF f.adapter = "getAntDesignIconsByFormat"
     THEN Matched(view.ado, processIconName(f.term))
     ELSE IF f.adapter = "searchIconFromIconify" THEN << <<"h", "o", "m", "e">>, <<"m", "i", "n", "u", "s">> >>
     ELSE <<>>

IsProvider(adapter) == adapter \in {"generateSVGWithTongyi", "generateSVGWithDoubao"}

\* the adapter after its pending request was answered (ok) or was rejected,
\* by a failure or by the timeout: a failure of the first request ends the
\* adapter, which returns [] from its catch block (a provider adapter
\* throws to generateSVGCode); the icon of a failed markup request is
\* passed over
RemoteSettled(f, view, ok) ==
  IF f.pending.call = "first"
  THEN IF ~ok
       THEN [f EXCEPT !.pc = "done", !.pending = NoCall,
                      !.ret = [kind |-> IF IsProvider(f.adapter) THEN "threw"
                                        ELSE "returned",
                               value |-> <<>>]]
       ELSE IF IsProvider(f.adapter)
       THEN [f EXCEPT !.pc = "done", !.pending = NoCall,
                      !.ret = [kind |-> "returned", value |-> <<f.term>>]]
       ELSE [f EXCEPT !.pc = "loop", !.pending = NoCall,
                      !.queue = RemoteMatches(f, view)]
  ELSE [f EXCEPT !.pending = NoCall,
                 !.queue = Tail(f.queue),
                 !.icons = IF ok THEN Append(f.icons, Head(f.queue)) ELSE f.icons]

\* the adapter runs to its next await, or returns after the loop
RemoteIssue ==
  /\ rq # <<>>
  /\ rq[1].op = "remote"
  /\ rq[1].pc \in {"called", "loop"}
  /\ rq[1].pending = NoCall
  /\ \E silent \in BOOLEAN :
     \E call \in {IF rq[1].pc = "called" THEN "first" ELSE "svg"} :
       rq' = IF rq[1].pc = "loop" /\ rq[1].queue = <<>>
             THEN [rq EXCEPT ![1].pc = "done",
                             ![1].ret = [kind |-> "returned", value |-> rq[1].icons]]
             ELSE [rq EXCEPT ![1].pending =
                     [call |-> call,
                      timeout |-> AxiosTimeout(rq[1].adapter, call),
                      silent |-> silent]]
  /\ UNCHANGED <<env, gi, cat, sh, dd, cleanVars>>

\* the endpoint answers or fails
RemoteResponds ==
  /\ rq # <<>>
  /\ rq[1].op = "remote"
  /\ rq[1].pending # NoCall
  /\ ~rq[1].pending.silent
  /\ \E ok \in BOOLEAN : rq' = [rq EXCEPT ![1] = RemoteSettled(rq[1], env.fs, ok)]
  /\ UNCHANGED <<env, gi, cat, sh, dd, cleanVars>>

\* the time of the timeout option passes before a response
RemoteTimesOut ==
  /\ rq # <<>>
  /\ rq[1].op = "remote"
  /\ rq[1].pending # NoCall
  /\ rq[1].pending.timeout > 0
  /\ rq' = [rq EXCEPT ![1] = RemoteSettled(rq[1], env.fs, FALSE)]
  /\ UNCHANGED <<env, gi, cat, sh, dd, cleanVars>>

RemoteAdapters ==
  {"getElementPlusIcons", "getAntDesignIconsByFormat", "searchIconFromIconify",
   "generateSVGWithTongyi", "generateSVGWithDoubao"}

RemoteTerms == {<<"e">>, <<"p", "l", "u", "s">>, <<"z", "z">>}

RemoteInit ==
  /\ env \in [keys : {{Tongyi, Doubao}}, fs : {ViewFull}]
  /\ rq \in {<< RemoteFrame(a, t) >> : a \in RemoteAdapters, t \in RemoteTerms}
  /\ gi = GiIdle
  /\ cat = CatIdle
  /\ sh = ShIdle
  /\ dd = DdIdle
  /\ CleanIdle

RemoteNext == RemoteIssue \/ RemoteResponds \/ RemoteTimesOut

\* the event loop runs a continuation that is ready, a timer that is set
\* fires, and an endpoint that is not silent answers
SpecRemote == RemoteInit /\ [][RemoteNext]_vars /\ WF_vars(RemoteNext)

----------------------------------------------------------------------------
(* The names: toCamelCase makes the display name of a file's base name, and
   processIconName makes the key a name is compared by *)

\* greatest length of a generated name
MaxName == 3

NameAlphabet == {"a", "b", "-", "P", "1"}

NameInputs ==
  SeqsUpTo(NameAlphabet, MaxName)
  \cup {<<"c", "i", "r", "c", "l", "e", "-", "p", "l", "u", "s">>, <<"a", "d", "d", "-", "l", "o", "c", "a", "t", "i", "o", "n">>, <<"c", "i", "r", "c", "l", "e", "P", "l", "u", "s">>, <<"p", "l", "u", "s">>}

\* a name is given
NameFrame(input) ==
  [op |-> "names", pc |-> "given", input |-> input, direct |-> <<>>,
   display |-> <<>>, key |-> <<>>]

NamesInit ==
  /\ rq \in {<< NameFrame(input) >> : input \in NameInputs}
  /\ env = [keys |-> {}, fs |-> ViewNone]
  /\ gi = GiIdle
  /\ cat = CatIdle
  /\ sh = ShIdle
  /\ dd = DdIdle
  /\ CleanIdle

\* the name is normalized as it is, and is made a display name
NameDisplay ==
  /\ rq # <<>>
  /\ rq[1].op = "names"
  /\ rq[1].pc = "given"
  /\ rq' = [rq EXCEPT ![1].pc = "displayed",
                      ![1].direct = processIconName(rq[1].input),
                      ![1].display = toCamelCase(rq[1].input)]
  /\ UNCHANGED <<env, gi, cat, sh, dd, cleanVars>>

\* the display name is normalized
NameNormalize ==
  /\ rq # <<>>
  /\ rq[1].op = "names"
  /\ rq[1].pc = "displayed"
  /\ rq' = [rq EXCEPT ![1].pc = "done",
                      ![1].key = processIconName(rq[1].display)]
  /\ UNCHANGED <<env, gi, cat, sh, dd, cleanVars>>

NamesNext == NameDisplay \/ NameNormalize

SpecNames == NamesInit /\ [][NamesNext]_vars

----------------------------------------------------------------------------
(* A lookup of a library adapter, in the local directories or in the remote
   ones, and then the same lookup in the other ones.  The remote
   directories hold the files the local ones hold; a file that cannot be
   read is a file whose request fails. *)

LookupTerms ==
  { <<"p", "l", "u", "s">>, <<"P", "l", "u", "s">>, <<"c", "i", "r", "c", "l", "e", "P", "l", "u", "s">>, <<"d", "e", "l", "e", "t", "e">>, <<"s", "v", "g">>, <<"s", ".", "s", "v", "g">>, <<"e">>,
    <<"P", "l", "u", "s", "O", "u", "t", "l", "i", "n", "e", "d">>, <<"z", "z">> }

LookupFamilies == {"ep", "ado", "adf"}

\* an adapter is called for a term, with or without the exact flag, for
\* the local directories or the remote ones
LookupFrame(family, term, exact, useLocal) ==
  [op |-> "lookup", pc |-> "called", family |-> family, term |-> term,
   exact |-> exact, useLocal |-> useLocal, icons |-> <<>>, twin |-> <<>>]

LookupInit ==
  /\ env \in [keys : {{}}, fs : LibraryViews]
  /\ rq \in {<< LookupFrame(family, term, exact, useLocal) >> :
               family \in LookupFamilies, term \in LookupTerms,
               exact \in BOOLEAN, useLocal \in BOOLEAN}
  /\ gi = GiIdle
  /\ cat = CatIdle
  /\ sh = ShIdle
  /\ dd = DdIdle
  /\ CleanIdle

\* getElementPlusIcons(term, useLocal, exact), or getAntDesignIconsByFormat
\* for one of the two directories
LookupIcons(view, family, term, exact, useLocal) ==
  LET Read(listing, source, format) ==
        IF useLocal THEN ReadIcons(listing, source, term, format, exact)
        ELSE ReadIconsRemote(listing, source, term, format, exact)
  IN IF family = "ep" THEN Read(view.ep, ElementPlus, <<>>)
     ELSE IF family = "ado" THEN Read(view.ado, AntDesign, <<"O", "u", "t", "l", "i", "n", "e", "d">>)
     ELSE Read(view.adf, AntDesign, <<"F", "i", "l", "l", "e", "d">>)

AdapterLookup ==
  /\ rq # <<>>
  /\ rq[1].op = "lookup"
  /\ rq[1].pc = "called"
  /\ rq' = [rq EXCEPT
              ![1].pc = "done",
              ![1].icons = LookupIcons(env.fs, rq[1].family, rq[1].term,
                                       rq[1].exact, rq[1].useLocal)]
  /\ UNCHANGED <<env, gi, cat, sh, dd, cleanVars>>

\* the same lookup with the other value of useLocal
AdapterLookupOther ==
  /\ rq # <<>>
  /\ rq[1].op = "lookup"
  /\ rq[1].pc = "done"
  /\ rq' = [rq EXCEPT
              ![1].pc = "compared",
              ![1].twin = LookupIcons(env.fs, rq[1].family, rq[1].term,
                                      rq[1].exact, ~rq[1].useLocal)]
  /\ UNCHANGED <<env, gi, cat, sh, dd, cleanVars>>

LookupNext == AdapterLookup \/ AdapterLookupOther

SpecLookup == LookupInit /\ [][LookupNext]_vars

----------------------------------------------------------------------------
(* getAntDesignIcons: one lookup for a format asked for, and for any other
   format the two lookups given to Promise.all.  Both calls are made before
   the await; in the local directories a call runs to its end when it is
   made, in the remote ones the two lookups end in either order.
   Promise.all gives the results in the order of the calls. *)

AntFormats == {"outlined", "filled", "undefined"}

AntTerms == {<<"p", "l", "u", "s">>, <<"d", "e", "l", "e", "t", "e">>, <<"P", "l", "u", "s", "O", "u", "t", "l", "i", "n", "e", "d">>, <<"e">>, <<"z", "z">>}

\* getAntDesignIcons(name, format, useLocal, exact) is called
AntFrame(term, format, exact, useLocal) ==
  [op |-> "getAntDesignIcons", pc |-> "called", term |-> term,
   format |-> format, exact |-> exact, useLocal |-> useLocal,
   started |-> <<>>, ended |-> <<>>,
   outlinedIcons |-> <<>>, filledIcons |-> <<>>, ret |-> <<>>]

AntInit ==
  /\ env \in [keys : {{}}, fs : LibraryViews]
  /\ rq \in {<< AntFrame(term, format, exact, useLocal) >> :
               term \in AntTerms, format \in AntFormats,
               exact \in BOOLEAN, useLocal \in BOOLEAN}
  /\ gi = GiIdle
  /\ cat = CatIdle
  /\ sh = ShIdle
  /\ dd = DdIdle
  /\ CleanIdle

\* the lookups of the call, in the order they are made
AntLookups(format) ==
  IF format = "outlined" THEN <<"Outlined">>
  ELSE IF format = "filled" THEN <<"Filled">>
  ELSE <<"Outlined", "Filled">>

\* what getAntDesignIconsByFormat gives for one of the two directories
AntByFormat(f, view, which) ==
  LookupIcons(view, IF which = "Outlined" THEN "ado" ELSE "adf",
              f.term, f.exact, f.useLocal)

\* the frame when the lookup of one directory has ended
AntEnded(f, view, which) ==
  IF which = "Outlined"
  THEN [f EXCEPT !.ended = Append(f.ended, which),
                 !.outlinedIcons = AntByFormat(f, view, which)]
  ELSE [f EXCEPT !.ended = Append(f.ended, which),
                 !.filledIcons = AntByFormat(f, view, which)]

RECURSIVE AntEndedAll(_, _, _)
AntEndedAll(f, view, lookups) ==
  IF lookups = <<>> THEN f
  ELSE AntEndedAll(AntEnded(f, view, Head(lookups)), view, Tail(lookups))

\* the calls are made, up to the await
AntIssue ==
  /\ rq # <<>>
  /\ rq[1].op = "getAntDesignIcons"
  /\ rq[1].pc = "called"
  /\ \E lookups \in {AntLookups(rq[1].format)} :
       rq' = [rq EXCEPT ![1] =
                [(IF rq[1].useLocal THEN AntEndedAll(rq[1], env.fs, lookups)
                  ELSE rq[1])
                   EXCEPT !.pc = "awaiting", !.started = lookups]]
  /\ UNCHANGED <<env, gi, cat, sh, dd, cleanVars>>

\* a lookup in the remote directories ends
AntLookupEnds ==
  /\ rq # <<>>
  /\ rq[1].op = "getAntDesignIcons"
  /\ rq[1].pc = "awaiting"
  /\ \E k \in 1..Len(rq[1].started) :
       /\ \A j \in 1..Len(rq[1].ended) : rq[1].ended[j] # rq[1].started[k]
       /\ rq' = [rq EXCEPT ![1] = AntEnded(rq[1], env.fs, rq[1].started[k])]
  /\ UNCHANGED <<env, gi, cat, sh, dd, cleanVars>>

\* the results joined in the order the lookups ended
AntJoinAsEnded ==
  /\ rq # <<>>
  /\ rq[1].op = "getAntDesignIcons"
  /\ rq[1].pc = "awaiting"
  /\ Len(rq[1].ended) = Len(rq[1].started)
  /\ rq' = [rq EXCEPT ![1].pc = "done",
                      ![1].ret = IF rq[1].ended[1] = "Outlined"
                                 THEN rq[1].outlinedIcons \o rq[1].filledIcons
                                 ELSE rq[1].filledIcons \o rq[1].outlinedIcons]
  /\ UNCHANGED <<env, gi, cat, sh, dd, cleanVars>>

\* the await ends when every lookup has ended: [...outlinedIcons,
\* ...filledIcons], or the icons of the one lookup
AntJoin ==
  /\ rq # <<>>
  /\ rq[1].op = "getAntDesignIcons"
  /\ rq[1].pc = "awaiting"
  /\ Len(rq[1].ended) = Len(rq[1].started)
  /\ rq' = [rq EXCEPT ![1].pc = "done",
                      ![1].ret = rq[1].outlinedIcons \o rq[1].filledIcons]
  /\ UNCHANGED <<env, gi, cat, sh, dd, cleanVars>>

AntNext == AntIssue \/ AntLookupEnds \/ AntJoin

SpecAntDesign == AntInit /\ [][AntNext]_vars

----------------------------------------------------------------------------
(* The library stage of generateIcon, lookup by lookup: each lookup is a
   call that is awaited, `const elementPlusIcons = await
   getElementPlusIcons(searchName, true)`, and the statement after it runs
   when the lookup has ended. *)

LibraryTerms == {<<"p", "l", "u", "s">>, <<"d", "e", "l", "e", "t", "e">>, <<"e">>, <<"z", "z">>, null}

\* the library stage of generateIcon(description, prefix, model, name)
LibraryFrame(searchName, prefix) ==
  [op |-> "libraryStage", pc |-> "next", searchName |-> searchName,
   prefix |-> prefix, at |-> 1, events |-> <<>>,
   elementPlusIcons |-> <<>>, antDesignIcons |-> <<>>, localIcons |-> <<>>]

LibraryInit ==
  /\ env \in [keys : {{}}, fs : LibraryViews]
  /\ rq \in {<< LibraryFrame(searchName, prefix) >> :
               searchName \in LibraryTerms, prefix \in Styles}
  /\ gi = GiIdle
  /\ cat = CatIdle
  /\ sh = ShIdle
  /\ dd = DdIdle
  /\ CleanIdle

\* the lookups of the stage, in the order of the statements
LibraryLookups(f) ==
  IF ~Truthy(f.searchName) THEN <<>>
  ELSE IF f.prefix = "element-plus" THEN <<"getElementPlusIcons">>
  ELSE IF f.prefix = "ant-design" THEN <<"getAntDesignIcons">>
  ELSE <<"getElementPlusIcons", "getAntDesignIcons">>

\* the call of the next lookup is made and awaited
LibraryLookupStarts ==
  /\ rq # <<>>
  /\ rq[1].op = "libraryStage"
  /\ rq[1].pc = "next"
  /\ rq[1].at <= Len(LibraryLookups(rq[1]))
  /\ rq' = [rq EXCEPT ![1].pc = "awaiting",
                      ![1].events = Append(@, <<"start", LibraryLookups(rq[1])[rq[1].at]>>)]
  /\ UNCHANGED <<env, gi, cat, sh, dd, cleanVars>>

\* the lookup awaited ends and its icons are assigned
LibraryLookupEnds ==
  /\ rq # <<>>
  /\ rq[1].op = "libraryStage"
  /\ rq[1].pc = "awaiting"
  /\ \E lookup \in {LibraryLookups(rq[1])[rq[1].at]} :
       rq' = [rq EXCEPT
                ![1].pc = "next",
                ![1].at = @ + 1,
                ![1].events = Append(@, <<"end", lookup>>),
                ![1].elementPlusIcons =
                  IF lookup = "getElementPlusIcons"
                  THEN getElementPlusIcons(env.fs, rq[1].searchName, FALSE)
                  ELSE @,
                ![1].antDesignIcons =
                  IF lookup = "getAntDesignIcons"
                  THEN getAntDesignIcons(env.fs, rq[1].searchName, "undefined", FALSE)
                  ELSE @]
  /\ UNCHANGED <<env, gi, cat, sh, dd, cleanVars>>

\* localIcons of the stage, after the last lookup
LibraryEvaluate ==
  /\ rq # <<>>
  /\ rq[1].op = "libraryStage"
  /\ rq[1].pc = "next"
  /\ rq[1].at > Len(LibraryLookups(rq[1]))
  /\ rq' = [rq EXCEPT
              ![1].pc = "done",
              ![1].localIcons =
                IF ~Truthy(rq[1].searchName) THEN <<>>
                ELSE IF rq[1].prefix = "element-plus" THEN rq[1].elementPlusIcons
                ELSE IF rq[1].prefix = "ant-design" THEN rq[1].antDesignIcons
                ELSE Take(rq[1].elementPlusIcons, 1) \o Take(rq[1].antDesignIcons, 1)]
  /\ UNCHANGED <<env, gi, cat, sh, dd, cleanVars>>

LibraryNext == LibraryLookupStarts \/ LibraryLookupEnds \/ LibraryEvaluate

SpecLibrary == LibraryInit /\ [][LibraryNext]_vars

----------------------------------------------------------------------------
(* searchIconFromIconify, request by request: the search request with the
   first keyword, then one markup request for each of the first five
   results that names an icon. *)

IndexDescriptions ==
  { <<"a", "d", "d", " ", "d", "e", "l", "e", "t", "e">>, <<"r", "e", "m", "o", "v", "e", " ", "d", "e", "l", "e", "t", "e">>, <<"m", "y", " ", "c", "a", "t">>, <<"A", "d", "d">>, <<"U+56FE", "U+6807">>, <<>>,
    <<"p", "l", "u", "s">>, <<"B", "i", "g", " ", "r", "e", "d", "-", "c", "a", "t", " ", "d", "o", "g", "!", "o", "x">>, <<"U+5220", "U+9664">> \o <<" ", "f", "i", "l", "e">>, <<"o", "k">> }

\* searchIconFromIconify(description) is called; response is what the
\* search request is going to give
IndexFrame(d, response) ==
  [op |-> "searchIconFromIconify", pc |-> "called", description |-> d,
   response |-> response, searchKeywords |-> <<>>, queries |-> <<>>, results |-> <<>>, k |-> 1,
   fetches |-> <<>>, icons |-> <<>>, ret |-> [kind |-> "none", value |-> <<>>]]

IndexInit ==
  /\ env = [keys |-> {}, fs |-> ViewNone]
  /\ rq \in {<< IndexFrame(d, response) >> :
               d \in IndexDescriptions, response \in IconifyResponses}
  /\ gi = GiIdle
  /\ cat = CatIdle
  /\ sh = ShIdle
  /\ dd = DdIdle
  /\ CleanIdle

\* a search request for every keyword
IndexSearchEveryKeyword ==
  /\ rq # <<>>
  /\ rq[1].op = "searchIconFromIconify"
  /\ rq[1].pc = "called"
  /\ \E searchKeywords \in {extractSearchKeywords(rq[1].description)} :
       rq' = IF searchKeywords = <<>>
             THEN [rq EXCEPT ![1].pc = "done",
                             ![1].ret = [kind |-> "returned", value |-> <<>>]]
             ELSE [rq EXCEPT ![1].pc = "searching",
                             ![1].searchKeywords = searchKeywords,
                             ![1].queries = searchKeywords]
  /\ UNCHANGED <<env, gi, cat, sh, dd, cleanVars>>

\* extractSearchKeywords, `return []` without a keyword, and the search
\* request with searchKeywords[0]
IndexSearch ==
  /\ rq # <<>>
  /\ rq[1].op = "searchIconFromIconify"
  /\ rq[1].pc = "called"
  /\ \E searchKeywords \in {extractSearchKeywords(rq[1].description)} :
       rq' = IF searchKeywords = <<>>
             THEN [rq EXCEPT ![1].pc = "done",
                             ![1].ret = [kind |-> "returned", value |-> <<>>]]
             ELSE [rq EXCEPT ![1].pc = "searching",
                             ![1].searchKeywords = searchKeywords,
                             ![1].queries = << searchKeywords[1] >>]
  /\ UNCHANGED <<env, gi, cat, sh, dd, cleanVars>>

\* the search request ends: a failure goes to the outer catch, a response
\* gives results.slice(0, 5)
IndexSearchEnds ==
  /\ rq # <<>>
  /\ rq[1].op = "searchIconFromIconify"
  /\ rq[1].pc = "searching"
  /\ rq' = IF ~rq[1].response.ok
           THEN [rq EXCEPT ![1].pc = "done",
                           ![1].ret = [kind |-> "returned", value |-> <<>>]]
           ELSE [rq EXCEPT ![1].pc = "loop",
                           ![1].results = Take(rq[1].response.results, 5)]
  /\ UNCHANGED <<env, gi, cat, sh, dd, cleanVars>>

\* one turn of the loop over the results
IndexLoop ==
  /\ rq # <<>>
  /\ rq[1].op = "searchIconFromIconify"
  /\ rq[1].pc = "loop"
  /\ rq[1].k <= Len(rq[1].results)
  /\ Len(rq[1].icons) < 5
  /\ \E result \in {rq[1].results[rq[1].k]} :
       rq' = IF ~result.icon
             THEN [rq EXCEPT ![1].k = @ + 1]
             ELSE IF ~result.fetched \/ result.body = <<>>
             THEN [rq EXCEPT ![1].k = @ + 1,
                             ![1].fetches = Append(@, <<result.prefix, result.name>>)]
             ELSE [rq EXCEPT ![1].k = @ + 1,
                             ![1].fetches = Append(@, <<result.prefix, result.name>>),
                             ![1].icons =
                               Append(@, [source |-> IconifySource(result.prefix),
                                          name |-> result.name,
                                          svg |-> result.body,
                                          rawSvg |-> cleanSvgContent(result.body)])]
  /\ UNCHANGED <<env, gi, cat, sh, dd, cleanVars>>

\* return icons
IndexReturn ==
  /\ rq # <<>>
  /\ rq[1].op = "searchIconFromIconify"
  /\ rq[1].pc = "loop"
  /\ (rq[1].k > Len(rq[1].results) \/ Len(rq[1].icons) >= 5)
  /\ rq' = [rq EXCEPT ![1].pc = "done",
                      ![1].ret = [kind |-> "returned", value |-> rq[1].icons]]
  /\ UNCHANGED <<env, gi, cat, sh, dd, cleanVars>>

IndexNext == IndexSearch \/ IndexSearchEnds \/ IndexLoop \/ IndexReturn

SpecIndex == IndexInit /\ [][IndexNext]_vars

----------------------------------------------------------------------------
(* Properties *)

Returned == gi.pc = "done"

FromPipeline == gi.impl = "pipeline"

StageRank(s) ==
  CASE s = "library" -> 1 [] s = "generation" -> 2 [] s = "index" -> 3
    [] s = "stock" -> 4 [] OTHER -> 5

StagesCalled == {gi.calls[i].stage : i \in 1..Len(gi.calls)}

StagesYielding == {gi.origin[i] : i \in 1..Len(gi.origin)}

\* C1: generateIcon never throws and returns an array with at least one
\* record, whatever the arguments, the credentials and the outcomes of the
\* library, provider and index requests.
C1_ReturnsRecords ==
  Returned => /\ gi.ret.kind = "returned"
              /\ gi.ret.shape = "array"
              /\ Len(gi.ret.value) >= 1

\* C2: every record generateIcon returns has a non-empty svg and a non-empty
\* rawSvg, a record with a nonzero code included.
C2_MarkupNonEmpty ==
  Returned => \A i \in 1..Len(gi.ret.value) :
                /\ gi.ret.value[i].svg # <<>>
                /\ gi.ret.value[i].rawSvg # <<>>

\* C3: the stages of generateIcon run in the order library, generation,
\* index, stock; a stage makes its requests only when no earlier stage gave
\* a record, so a run whose library stage gave a record makes no provider,
\* index or stock request; and the records of one result come from one stage.
C3_StrictFallbackOrder ==
  FromPipeline =>
    /\ \A i, j \in 1..Len(gi.calls) :
         i < j => StageRank(gi.calls[i].stage) <= StageRank(gi.calls[j].stage)
    /\ \A s \in StagesCalled : \A y \in StagesYielding : StageRank(y) >= StageRank(s)
    /\ "library" \in StagesYielding => StagesCalled \subseteq {"library"}
    /\ Cardinality(StagesYielding) <= 1
    /\ Len(gi.origin) = Len(gi.allIcons)
    /\ StageRank(gi.pc) <= 4 => \A s \in StagesCalled : StageRank(s) < StageRank(gi.pc)

\* a run that ends with the two records of the library stage and has made
\* no other request
C3_Witness ==
  /\ FromPipeline /\ Returned
  /\ gi.origin = <<"library", "library">>
  /\ StagesCalled = {"library"}

\* C4: when the library, generation and index stages all give nothing,
\* generateIcon returns exactly one record, made by the rules, with a
\* nonzero code.
C4_StockWhenNothing ==
  (FromPipeline /\ Returned /\ StagesYielding \cap {"library", "generation", "index"} = {})
    => /\ gi.ret.kind = "returned"
       /\ Len(gi.ret.value) = 1
       /\ gi.origin = <<"stock">>
       /\ gi.ret.value[1].code # 0
       /\ gi.ret.value[1].svg = generateSVGByRules(gi.description, gi.prefix)

\* a run in which the three stages were tried, gave nothing, and the rules
\* made the record
C4_Witness ==
  /\ FromPipeline /\ Returned
  /\ gi.origin = <<"stock">>
  /\ {"library", "generation", "index"} \subseteq StagesCalled
  /\ gi.ret.value[1].code = -1

\* C5: a record from the library, generation or index stage carries code
\* 0, only a record of the stock stage carries a nonzero code, and no
\* record returned lacks the code field.
C5_CodeByStage ==
  (FromPipeline /\ Returned) =>
    \A i \in 1..Len(gi.ret.value) :
      /\ "code" \in DOMAIN gi.ret.value[i]
      /\ gi.origin[i] \in {"library", "generation", "index"} => gi.ret.value[i].code = 0
      /\ gi.ret.value[i].code # 0 => gi.origin[i] = "stock"

----------------------------------------------------------------------------
(* Properties of cleanSvgContent, checked under SpecClean *)

\* a and b have the same source and the same name
SameKey(a, b) == a.source = b.source /\ a.name = b.name

NoSharedKey(icons) ==
  \A i, j \in 1..Len(icons) : i # j => ~SameKey(icons[i], icons[j])

\* C6: no list that generateIcon returns, and no list that the category
\* expansion built on it (generateIconsByCategory) returns, has two records
\* with the same source and the same name, whatever the library holds and
\* whatever keywords are generated.
C6_NoSharedSourceAndName ==
  /\ (FromPipeline /\ Returned) => NoSharedKey(gi.ret.value)
  /\ (cat.op = "generate" /\ cat.pc = "done") => NoSharedKey(cat.ret)

\* the first record of each (source, name) of icons, in the order of those
\* first occurrences
FirstSeen(icons) ==
  LET At(idx) == [k \in 1..Len(idx) |-> icons[idx[k]]]
  IN At(SelectSeq([i \in 1..Len(icons) |-> i],
                  LAMBDA i : \A j \in 1..(i - 1) : ~SameKey(icons[j], icons[i])))

\* C7: the de-duplication of a result list gives a list with no two records
\* of equal (source, name), no longer than the input, made of the first
\* record seen for each (source, name), in the order of those first
\* occurrences.
C7_StableFirstSeen ==
  dd.done => /\ NoSharedKey(dd.output)
             /\ Len(dd.output) <= Len(dd.input)
             /\ dd.output = FirstSeen(dd.input)

\* the last record of each (source, name) of icons, in the order in which
\* the (source, name) first occur
LastSeen(icons) ==
  LET At(firsts) ==
        [k \in 1..Len(firsts) |->
           icons[CHOOSE j \in 1..Len(icons) :
                   /\ SameKey(icons[j], firsts[k])
                   /\ \A l \in (j + 1)..Len(icons) : ~SameKey(icons[l], firsts[k])]]
  IN At(FirstSeen(icons))

\* C7, amended: the de-duplication gives a list with no two records of equal
\* (source, name), no longer than the input, with one record for each
\* (source, name) of the input in the order in which they first occur, and
\* that record is the last one the input has for it.
C7_StableLastSeen ==
  dd.done => /\ NoSharedKey(dd.output)
             /\ Len(dd.output) <= Len(dd.input)
             /\ dd.output = LastSeen(dd.input)

\* a list of three with a (source, name) twice, the two records differing
C7_Witness ==
  /\ dd.done
  /\ Len(dd.input) = 3
  /\ Len(dd.output) = 2
  /\ dd.output # FirstSeen(dd.input)

\* C8: a category expansion, searchIconsByCategory included, returns exactly
\* count records, whether the keyword enumeration gives count keywords,
\* fails, or gives fewer usable keywords.
C8_ExactlyCount == cat.pc = "done" => Len(cat.ret) = cat.count

\* C9: in the tool and in the route alike, a names argument that is empty
\* after splitting on commas, trimming and dropping the empty entries (no
\* name argument standing in for it) gets an empty result and no error.
C9_EmptyNamesEmptyResult ==
  (/\ sh.pc = "done"
   /\ sh.names # undefined
   /\ sh.name = undefined
   /\ NameArray(sh.names) = <<>>)
  => IF sh.facade = "mcp"
     THEN ~sh.response.isError /\ sh.response.data = <<>>
     ELSE sh.response.status = 200 /\ sh.response.body = <<>>

\* C10: cleanSvgContent is idempotent: cleaning a cleaned markup gives the
\* cleaned markup again, attribute order and whitespace in the root tag
\* included.
C10_Idempotent ==
  (Len(clOut) >= 2 /\ ~clOut[1].threw) => clOut[2].value = clOut[1].value

----------------------------------------------------------------------------
(* Properties of the markup of the records *)

HasXmlDecl(s) == \E k \in 1..Len(s) : XmlDeclAt(s, k)

HasDoctype(s) == \E k \in 1..Len(s) : DoctypeAt(s, k)

HasLineBreak(s) == \E k \in 1..Len(s) : s[k] \in {"\n", "\r"}

\* C11: the rawSvg of every record generateIcon returns, the records of the
\* library adapters among them, has no XML declaration, no DOCTYPE
\* declaration and no newline or carriage return, whatever the markup was.
C11_RawSvgCanonical ==
  (FromPipeline /\ Returned) =>
    \A i \in 1..Len(gi.ret.value) :
      /\ ~HasXmlDecl(gi.ret.value[i].rawSvg)
      /\ ~HasDoctype(gi.ret.value[i].rawSvg)
      /\ ~HasLineBreak(gi.ret.value[i].rawSvg)

----------------------------------------------------------------------------
(* Properties of the library stage *)

\* the files of the local directories, each with the source and the format
\* suffix its records get
LocalFiles(view) ==
  {<<ElementPlus, <<>>, view.ep.files[i]>> : i \in 1..Len(view.ep.files)}
  \cup {<<AntDesign, <<"O", "u", "t", "l", "i", "n", "e", "d">>, view.ado.files[i]>> : i \in 1..Len(view.ado.files)}
  \cup {<<AntDesign, <<"F", "i", "l", "l", "e", "d">>, view.adf.files[i]>> : i \in 1..Len(view.adf.files)}

BaseName(file) == ReplaceFirst(file.name, DotSvg, <<>>)

\* the record is the one made of the file
RecordOfFile(rec, entry) ==
  /\ rec.source = entry[1]
  /\ rec.name = toCamelCase(BaseName(entry[3])) \o entry[2]
  /\ rec.svg = entry[3].content

\* the library stage has run
AfterLibraryStage == FromPipeline /\ gi.pc = "generation"

ExactFileOf(rec) ==
  \E entry \in LocalFiles(env.fs) :
    /\ RecordOfFile(rec, entry)
    /\ EndsWith(entry[3].name, DotSvg)
    /\ toLowerCase(BaseName(entry[3])) = processIconName(gi.searchName)

ContainingFileOf(rec) ==
  \E entry \in LocalFiles(env.fs) :
    /\ RecordOfFile(rec, entry)
    /\ EndsWith(entry[3].name, DotSvg)
    /\ Includes(toLowerCase(entry[3].name), processIconName(gi.searchName))

\* C17: the library stage asks the adapters for an exact match in the local
\* directories: a record of stage 1 is made of a local file whose base
\* name, in lower case, equals the normalized search name.
C17_ExactLocal ==
  AfterLibraryStage => \A i \in 1..Len(gi.allIcons) : ExactFileOf(gi.allIcons[i])

\* C17, as the code has it: the library stage asks the adapters for the
\* local directories without the exact flag: a record of stage 1 is made of
\* a local .svg file whose name, in lower case, contains the normalized
\* search name.
C17_ContainingLocal ==
  AfterLibraryStage => \A i \in 1..Len(gi.allIcons) : ContainingFileOf(gi.allIcons[i])

\* stage 1 gave a record of a file whose base name is not the search name
C17_Witness ==
  /\ AfterLibraryStage
  /\ \E i \in 1..Len(gi.allIcons) :
       ContainingFileOf(gi.allIcons[i]) /\ ~ExactFileOf(gi.allIcons[i])

----------------------------------------------------------------------------
(* Properties of the generation stage *)

ProviderCall(m) ==
  IF m = Tongyi THEN "axios.post dashscope" ELSE "axios.post doubao"

GenerationCalls ==
  {gi.calls[i].call : i \in {j \in 1..Len(gi.calls) : gi.calls[j].stage = "generation"}}

\* the generation stage has run and neither it nor the library gave a record
GenerationFailed == FromPipeline /\ gi.pc = "index" /\ gi.allIcons = <<>>

\* C13: when generation with the model asked for fails and another provider
\* has its credential, generateIcon makes a request to another provider
\* before it leaves the generation stage.
C13_FallbackProviderTried ==
  (/\ GenerationFailed
   /\ gi.model \in {Tongyi, Doubao}
   /\ (env.keys \ {gi.model}) # {}) =>
    \E m \in env.keys \ {gi.model} : ProviderCall(m) \in GenerationCalls

\* C14: the model of every record generateIcon returns from the generation
\* stage is the tag of the provider whose request gave the svg, whatever
\* model was asked for, one the module has an adapter for or not, and
\* whatever credentials are set.
C14_ModelIsProducer ==
  (FromPipeline /\ Returned) =>
    \A i \in 1..Len(gi.ret.value) :
      gi.origin[i] = "generation" =>
        /\ gi.ret.value[i].model \in {Tongyi, Doubao}
        /\ GenerationCalls = {ProviderCall(gi.ret.value[i].model)}

\* no model is asked for and no provider has a credential
NoProviderAvailable == FromPipeline /\ gi.model = NoModel /\ env.keys = {}

ProviderCalls == {ProviderCall(Tongyi), ProviderCall(Doubao)}

LibraryFallbackGave(found) ==
  IF Truthy(found) /\ isValidSVG(found)
  THEN /\ gi.origin = <<"generation">>
       /\ Len(gi.allIcons) = 1
       /\ gi.allIcons[1].svg = found
       /\ gi.allIcons[1].code = 0
       /\ gi.allIcons[1].source = AIGenerated
       /\ gi.allIcons[1].model = NoModel
  ELSE gi.allIcons = <<>>

----------------------------------------------------------------------------
(* More properties of cleanSvgContent, checked under SpecClean *)

\* C12: the cleanSvgContent in effect in the generator module is total:
\* called with null or undefined it does not throw and returns the empty
\* string.
C12_TotalOnNullish ==
  (clImpl = "generator" /\ clKind \in {"null", "undefined"} /\ clOut # <<>>) =>
    (~clOut[1].threw /\ clOut[1].value = <<>>)

----------------------------------------------------------------------------
(* Properties of requests in flight at once, checked under SpecConcurrent *)

\* what the request gives when nothing else runs: its steps one after the
\* other, with the answers fixed for it
RunAlone(f, e) ==
  IF f.op = "generateIcon"
  THEN StockStep(IndexStep(GenerationStep(
         LibraryStep(GiCall(f.g.description, f.g.prefix, f.g.model, f.g.name), e),
         e, f.reply), f.response)).ret
  ELSE McpSearchResponse(e.fs, f.names, f.prefix)

ResultsAsAlone ==
  \A r \in DOMAIN rq : FrameDone(rq[r]) => FrameResult(rq[r]) = RunAlone(rq[r], env)

\* a step is one request's: the activation of no other request changes, nor
\* does what the requests share
StepOfOne ==
  /\ env' = env
  /\ \E r \in DOMAIN rq : \A q \in DOMAIN rq \ {r} : rq'[q] = rq[q]

----------------------------------------------------------------------------
(* Properties of the remote calls, checked under SpecRemote *)

RemoteReturned == \A r \in DOMAIN rq : rq[r].pc = "done"

PendingHasTimeout ==
  \A r \in DOMAIN rq : rq[r].pending # NoCall => rq[r].pending.timeout > 0

\* C16: every remote request of the library adapters, of the index search
\* and of the provider adapters has a timeout, so an endpoint that never
\* answers makes the request fail and the adapter, and with it the search
\* or generation that awaits it, returns in the end.
C16_RemoteCallsTimeOut == []PendingHasTimeout /\ <>RemoteReturned

----------------------------------------------------------------------------
(* Properties of the names, checked under SpecNames *)

\* a base name as the libraries have them: lower-case letters and digits,
\* with single hyphens, each between a letter or digit and a letter
HyphenNamed(s) ==
  /\ s # <<>>
  /\ \A k \in 1..Len(s) :
       \/ IsLowerAlnum(s[k])
       \/ /\ s[k] = "-"
          /\ 1 < k /\ k < Len(s)
          /\ IsLowerAlnum(s[k - 1])
          /\ IsLower(s[k + 1])

\* C19: processIconName makes of every lower-case letter followed by an
\* upper-case letter the two letters in lower case with a hyphen between,
\* so the display name toCamelCase makes of a hyphen-named file normalizes
\* back to the base name of the file.
C19_CamelBackToHyphen ==
  \A r \in DOMAIN rq :
    (rq[r].op = "names" /\ rq[r].pc = "done") =>
      /\ rq[r].direct = Trim(toLowerCase(HyphenateCamel(rq[r].input)))
      /\ HyphenNamed(rq[r].input) => rq[r].key = rq[r].input

----------------------------------------------------------------------------
(* Properties of the lookup, checked under SpecLookup *)

\* the files of the directory the lookup reads whose content can be had
LookupFiles(f) ==
  {entry \in LocalFiles(env.fs) :
     /\ entry[3].readable
     /\ entry[1] = (IF f.family = "ep" THEN ElementPlus ELSE AntDesign)
     /\ entry[2] = (IF f.family = "ep" THEN <<>>
                    ELSE IF f.family = "ado" THEN <<"O", "u", "t", "l", "i", "n", "e", "d">> ELSE <<"F", "i", "l", "l", "e", "d">>)}

\* the test of the base name: equality with the exact flag, containment
\* without
BaseNameMatches(entry, term, exact) ==
  /\ EndsWith(entry[3].name, DotSvg)
  /\ IF exact THEN toLowerCase(BaseName(entry[3])) = processIconName(term)
     ELSE Includes(toLowerCase(BaseName(entry[3])), processIconName(term))

\* C20: a lookup of a library adapter returns a file of the listing exactly
\* when the file has the extension .svg and its base name in lower case
\* equals the normalized term (exact flag set) or contains it (exact flag
\* not set).
C20_LookupByBaseName ==
  \A r \in DOMAIN rq :
    (rq[r].op = "lookup" /\ rq[r].pc = "done") =>
      \A entry \in LookupFiles(rq[r]) :
        (\E i \in 1..Len(rq[r].icons) : RecordOfFile(rq[r].icons[i], entry))
          <=> BaseNameMatches(entry, rq[r].term, rq[r].exact)

\* the listing the lookup reads
LookupListing(f) ==
  IF f.family = "ep" THEN env.fs.ep
  ELSE IF f.family = "ado" THEN env.fs.ado ELSE env.fs.adf

\* the places in the listing of the files that match and can be read
ReadPositions(f) ==
  {k \in 1..Len(LookupListing(f).files) :
     /\ MatchesFile(LookupListing(f).files[k].name, processIconName(f.term), f.exact)
     /\ LookupListing(f).files[k].readable}

\* the i-th of those places
ReadPosition(f, i) ==
  CHOOSE k \in ReadPositions(f) :
    Cardinality({j \in ReadPositions(f) : j <= k}) = i

LookupEntry(f, k) ==
  << IF f.family = "ep" THEN ElementPlus ELSE AntDesign,
     IF f.family = "ep" THEN <<>>
     ELSE IF f.family = "ado" THEN <<"O", "u", "t", "l", "i", "n", "e", "d">> ELSE <<"F", "i", "l", "l", "e", "d">>,
     LookupListing(f).files[k] >>

\* C21: a lookup of a library adapter does not throw: it returns [] when the
\* listing fails, and otherwise one record for every matched file whose
\* content can be had, in the order of the listing; a matched file whose
\* content cannot be had is the only one missing.
C21_LookupSwallowsFailures ==
  \A r \in DOMAIN rq :
    (rq[r].op = "lookup" /\ rq[r].pc = "done") =>
      /\ ~LookupListing(rq[r]).ok => rq[r].icons = <<>>
      /\ Len(rq[r].icons) = Cardinality(ReadPositions(rq[r]))
      /\ \A i \in 1..Len(rq[r].icons) :
           RecordOfFile(rq[r].icons[i], LookupEntry(rq[r], ReadPosition(rq[r], i)))

\* a lookup has returned records though a matched file could not be read
C21_Witness ==
  /\ rq # <<>>
  /\ rq[1].op = "lookup" /\ rq[1].pc = "done"
  /\ rq[1].icons # <<>>
  /\ \E k \in 1..Len(LookupListing(rq[1]).files) :
       /\ MatchesFile(LookupListing(rq[1]).files[k].name,
                      processIconName(rq[1].term), rq[1].exact)
       /\ ~LookupListing(rq[1]).files[k].readable

\* C22: the local and the remote directories are interchangeable: with the
\* same file names and contents a lookup returns the same records, in the
\* same order, with useLocal set as with useLocal not set, whatever the
\* term and the exact flag.
C22_LocalAsRemote ==
  \A r \in DOMAIN rq :
    (rq[r].op = "lookup" /\ rq[r].pc = "compared") => rq[r].icons = rq[r].twin

\* both lookups have returned records, for a term the normalization changes
C22_Witness ==
  /\ rq # <<>>
  /\ rq[1].op = "lookup" /\ rq[1].pc = "compared"
  /\ rq[1].icons # <<>> /\ rq[1].twin # <<>>
  /\ processIconName(rq[1].term) # toLowerCase(rq[1].term)

----------------------------------------------------------------------------
(* Properties of getAntDesignIcons, checked under SpecAntDesign *)

AntFrames == {r \in DOMAIN rq : rq[r].op = "getAntDesignIcons"}

\* every name of the records ends with the suffix
AllNamed(icons, suffix) == \A i \in 1..Len(icons) : EndsWith(icons[i].name, suffix)

\* C23: getAntDesignIcons asked for one format reads the listing of that
\* format only; asked for none it has both lookups made when it awaits;
\* every name returned ends with Outlined or Filled, as the directory the
\* record is from; and the result for no format is the outlined records,
\* then the filled ones, whichever lookup ends first.
C23_AntDesignFormats ==
  \A r \in AntFrames :
    /\ rq[r].pc # "called" =>
         rq[r].started = (IF rq[r].format = "outlined" THEN <<"Outlined">>
                          ELSE IF rq[r].format = "filled" THEN <<"Filled">>
                          ELSE <<"Outlined", "Filled">>)
    /\ AllNamed(rq[r].outlinedIcons, <<"O", "u", "t", "l", "i", "n", "e", "d">>)
    /\ AllNamed(rq[r].filledIcons, <<"F", "i", "l", "l", "e", "d">>)
    /\ rq[r].pc = "done" =>
         /\ {rq[r].ended[j] : j \in 1..Len(rq[r].ended)}
              = {rq[r].started[j] : j \in 1..Len(rq[r].started)}
         /\ rq[r].ret =
              (IF rq[r].format # "filled"
               THEN LookupIcons(env.fs, "ado", rq[r].term, rq[r].exact, rq[r].useLocal)
               ELSE <<>>)
              \o (IF rq[r].format # "outlined"
                  THEN LookupIcons(env.fs, "adf", rq[r].term, rq[r].exact, rq[r].useLocal)
                  ELSE <<>>)

\* a call for no format has returned records of both directories, the
\* lookup of the filled directory having ended first
C23_Witness ==
  /\ rq # <<>>
  /\ rq[1].op = "getAntDesignIcons" /\ rq[1].pc = "done"
  /\ rq[1].ended = <<"Filled", "Outlined">>
  /\ rq[1].outlinedIcons # <<>> /\ rq[1].filledIcons # <<>>
  /\ rq[1].outlinedIcons # rq[1].filledIcons

----------------------------------------------------------------------------
(* Properties of the lookups of the library stage, checked under
   SpecLibrary *)

LibraryFrames == {r \in DOMAIN rq : rq[r].op = "libraryStage"}

\* the place of an event among the events of a frame, 0 when it is not there
EventAt(f, e) ==
  IF \E i \in 1..Len(f.events) : f.events[i] = e
  THEN CHOOSE i \in 1..Len(f.events) : f.events[i] = e
  ELSE 0

\* C24: in the library stage for a style that names no family, the lookup of
\* the second family has started when the lookup of the first one ends, and
\* both lookups have ended when the icons of the stage are taken.
C24_FamiliesConcurrent ==
  \A r \in LibraryFrames :
    (Truthy(rq[r].searchName) /\ rq[r].prefix \notin {"element-plus", "ant-design"}) =>
      /\ EventAt(rq[r], <<"end", "getElementPlusIcons">>) # 0 =>
           /\ EventAt(rq[r], <<"start", "getAntDesignIcons">>) # 0
           /\ EventAt(rq[r], <<"start", "getAntDesignIcons">>)
                < EventAt(rq[r], <<"end", "getElementPlusIcons">>)
      /\ rq[r].pc = "done" =>
           /\ EventAt(rq[r], <<"end", "getElementPlusIcons">>) # 0
           /\ EventAt(rq[r], <<"end", "getAntDesignIcons">>) # 0

----------------------------------------------------------------------------
(* Properties of the records of the library stage, checked under Spec *)

\* the style names no family
Unrestricted == gi.prefix \notin {"element-plus", "ant-design"}

\* the places of the records of a family among the records returned
OfFamily(family) == {i \in 1..Len(gi.allIcons) : gi.allIcons[i].source = family}

\* the record, if any, is the one of the first match of the family
FirstMatchOnly(family, matches) ==
  /\ Cardinality(OfFamily(family)) = (IF matches = <<>> THEN 0 ELSE 1)
  /\ \A i \in OfFamily(family) :
       /\ gi.allIcons[i].name = matches[1].name
       /\ gi.allIcons[i].svg = matches[1].svg
       /\ gi.allIcons[i].code = 0

\* C25: for a style that names no family the library stage gives at most
\* one record of each family, the first match of the family, and so at most
\* two records; each record has the source of its family and the code 0.
C25_OnePerFamily ==
  (AfterLibraryStage /\ Unrestricted /\ Truthy(gi.searchName)) =>
    /\ Len(gi.allIcons) <= 2
    /\ \A i \in 1..Len(gi.allIcons) : gi.allIcons[i].source \in {ElementPlus, AntDesign}
    /\ FirstMatchOnly(ElementPlus, ReadIcons(env.fs.ep, ElementPlus, gi.searchName, <<>>, FALSE))
    /\ FirstMatchOnly(AntDesign,
                      ReadIcons(env.fs.ado, AntDesign, gi.searchName, <<"O", "u", "t", "l", "i", "n", "e", "d">>, FALSE)
                      \o ReadIcons(env.fs.adf, AntDesign, gi.searchName, <<"F", "i", "l", "l", "e", "d">>, FALSE))

\* the stage gave one record of each family where a family has several
\* matches
C25_Witness ==
  /\ AfterLibraryStage /\ Unrestricted
  /\ Len(gi.allIcons) = 2
  /\ Len(ReadIcons(env.fs.ado, AntDesign, gi.searchName, <<"O", "u", "t", "l", "i", "n", "e", "d">>, FALSE)) > 1

----------------------------------------------------------------------------
(* Properties of what the generation stage accepts, checked under Spec *)

\* the text has an opening and a closing svg tag and one of viewBox, width
\* and height
AcceptableMarkup(text) ==
  /\ \E i \in 1..Len(text) : text[i] = "<svg"
  /\ \E i \in 1..(Len(text) - 1) : text[i] = "</svg" /\ text[i + 1] = ">"
  /\ \E i \in 1..Len(text) : text[i] \in {"viewBox", "width", "height"}

\* the step of the generation stage when the library gave no record
GenerationActs == FromPipeline /\ gi.pc = "generation" /\ gi.allIcons = <<>>

\* C26: the generation stage makes a record only of a text with an opening
\* and a closing svg tag and one of viewBox, width and height; for any other
\* output, and for a request that fails, it makes no record and throws
\* nothing, and generateIcon goes on with the index stage.
C26_OnlyValidMarkupAccepted ==
  [][GenerationActs =>
       /\ gi'.pc = "index"
       /\ gi'.ret.kind = "none"
       /\ Len(gi'.allIcons) <= 1
       /\ \A i \in 1..Len(gi'.allIcons) : AcceptableMarkup(gi'.allIcons[i].svg)]_vars

\* a provider was asked, the stage made no record, and the index stage has
\* made its request
C26_Witness ==
  /\ FromPipeline /\ gi.pc = "stock"
  /\ GenerationCalls \cap ProviderCalls # {}
  /\ "generation" \notin StagesYielding
  /\ "index" \in StagesCalled

----------------------------------------------------------------------------
(* Properties of what cleanSvgContent leaves alone, checked under
   SpecClean *)

\* the text after the root tag: what follows the first ">" after the first
\* "<svg", line breaks left out; the empty text when there is no root tag
AfterRootTag(s) ==
  LET Rest(j) == IF j = 0 THEN <<>>
                 ELSE SelectSeq(SubSeq(s, j + 1, Len(s)),
                                LAMBDA c : c \notin {"\n", "\r"})
      Tag(i) == Rest(IF i = 0 THEN 0 ELSE FirstGt(s, i + 1))
  IN Tag(IndexFrom(s, "<svg", 1))

\* the places of stroke-width= in the text
StrokeWidths(s) == {i \in 1..Len(s) : StartsAt(s, <<"stroke-", "width", "=">>, i)}

\* C27: cleanSvgContent takes width and height from the root svg tag only:
\* the elements after the root tag, the rect with its width and height among
\* them, and an attribute whose name ends in width, stroke-width, are in the
\* result as they were.
C27_OnlyRootSizeRemoved ==
  (clKind = "string" /\ clOut # <<>> /\ IndexFrom(clIn, "<svg", 1) # 0) =>
    /\ ~clOut[1].threw
    /\ AfterRootTag(clOut[1].value) = AfterRootTag(clIn)
    /\ Cardinality(StrokeWidths(clOut[1].value)) = Cardinality(StrokeWidths(clIn))

----------------------------------------------------------------------------
(* Properties of rawSvg against svg, checked under Spec *)

\* C28: the rawSvg of every record generateIcon returns, of whatever stage,
\* is cleanSvgContent of the svg of the record.
C28_RawSvgOfSvg ==
  (FromPipeline /\ Returned /\ gi.ret.kind = "returned") =>
    \A i \in 1..Len(gi.ret.value) :
      gi.ret.value[i].rawSvg = cleanSvgContent(gi.ret.value[i].svg)

----------------------------------------------------------------------------
(* Properties of searchIconFromIconify, checked under SpecIndex *)

IndexFrames == {r \in DOMAIN rq : rq[r].op = "searchIconFromIconify"}

\* the entries a record is made of: they name an icon, and the markup
\* request gave a text that is not empty
Usable(results) ==
  SelectSeq(results, LAMBDA r : r.icon /\ r.fetched /\ r.body # <<>>)

\* C29: searchIconFromIconify makes one search request, with the first
\* keyword extracted and no other; it returns at most 5 records, those of
\* the first results whose markup request gave a text that is not empty, in
\* their order; and without a keyword, or when the search request fails, it
\* returns the empty list and throws nothing.
C29_IndexSearch ==
  \A r \in IndexFrames :
    LET f == rq[r]
        searchKeywords == extractSearchKeywords(f.description)
    IN /\ f.queries = (IF f.pc = "called" \/ searchKeywords = <<>> THEN <<>>
                       ELSE << searchKeywords[1] >>)
       /\ f.pc = "done" =>
            /\ f.ret.kind = "returned"
            /\ Len(f.ret.value) <= 5
            /\ (searchKeywords = <<>> \/ ~f.response.ok) => f.ret.value = <<>>
            /\ (searchKeywords # <<>> /\ f.response.ok) =>
                  LET usable == Usable(SubSeq(f.response.results, 1,
                                              IF Len(f.response.results) < 5
                                              THEN Len(f.response.results) ELSE 5))
                  IN /\ Len(f.ret.value) = Len(usable)
                     /\ \A i \in 1..Len(usable) :
                          /\ f.ret.value[i].name = usable[i].name
                          /\ f.ret.value[i].svg = usable[i].body
            /\ f.ret.value = searchIconFromIconify(f.description, f.response).icons

\* a description with two keywords: one search was made, a markup request
\* failed or gave nothing, and a record of a later result is returned
C29_Witness ==
  /\ rq # <<>>
  /\ rq[1].op = "searchIconFromIconify" /\ rq[1].pc = "done"
  /\ Len(extractSearchKeywords(rq[1].description)) > 1
  /\ Len(rq[1].queries) = 1
  /\ Len(rq[1].fetches) > Len(rq[1].ret.value)
  /\ rq[1].ret.value # <<>>

----------------------------------------------------------------------------
(* Properties of extractSearchKeywords, checked under SpecIndex on the
   searchKeywords of searchIconFromIconify *)

\* the places in keywordMap of the keys the text contains
KeysIn(lowerDesc) ==
  {k \in 1..Len(keywordMap) :
     \E i \in 1..Len(lowerDesc) :
       /\ i + Len(keywordMap[k][1]) - 1 <= Len(lowerDesc)
       /\ SubSeq(lowerDesc, i, i + Len(keywordMap[k][1]) - 1) = keywordMap[k][1]}

\* the i-th least number of a set of numbers
NthOf(S, i) == CHOOSE k \in S : Cardinality({j \in S : j < k}) = i - 1

\* a to b is a longest run of letters a to z and digits in the text, of more
\* than 2 characters
LongWord(lowerDesc, a, b) ==
  /\ b - a + 1 > 2
  /\ \A i \in a..b : IsLowerAlnum(lowerDesc[i])
  /\ a = 1 \/ ~IsLowerAlnum(lowerDesc[a - 1])
  /\ b = Len(lowerDesc) \/ ~IsLowerAlnum(lowerDesc[b + 1])

\* where the words of more than 2 characters start
WordStarts(lowerDesc) ==
  {a \in 1..Len(lowerDesc) : \E b \in a..Len(lowerDesc) : LongWord(lowerDesc, a, b)}

\* the keywords are the tokens of the keys the text contains, in the order
\* of the map
TokensOfKeys(keywords, lowerDesc) ==
  /\ Len(keywords) = Cardinality(KeysIn(lowerDesc))
  /\ \A i \in 1..Len(keywords) :
       keywords[i] = keywordMap[NthOf(KeysIn(lowerDesc), i)][2]

\* the keywords are the first words of more than 2 characters, 3 at most
FirstWords(keywords, lowerDesc) ==
  /\ Len(keywords) = (IF Cardinality(WordStarts(lowerDesc)) < 3
                      THEN Cardinality(WordStarts(lowerDesc)) ELSE 3)
  /\ \A i \in 1..Len(keywords) :
       LET a == NthOf(WordStarts(lowerDesc), i)
       IN LongWord(lowerDesc, a, a + Len(keywords[i]) - 1)
          /\ keywords[i] = SubSeq(lowerDesc, a, a + Len(keywords[i]) - 1)

\* C30: extractSearchKeywords gives the token of every key of keywordMap
\* that the description in lower case contains, in the order of the map; and
\* only when it contains no key, the first words of more than 2 characters,
\* 3 at most, of the description in lower case split at what is no letter a
\* to z and no digit; words and tokens are never in one result.
C30_KeywordsOrWords ==
  \A r \in IndexFrames :
    rq[r].pc # "called" =>
      LET lowerDesc == toLowerCase(rq[r].description)
      IN IF KeysIn(lowerDesc) # {}
         THEN TokensOfKeys(rq[r].searchKeywords, lowerDesc)
         ELSE FirstWords(rq[r].searchKeywords, lowerDesc)

\* the description names two keys in the other order than the map
C30_Witness ==
  /\ rq # <<>>
  /\ rq[1].op = "searchIconFromIconify" /\ rq[1].pc # "called"
  /\ rq[1].searchKeywords = << <<"d", "e", "l", "e", "t", "e">>, <<"a", "d", "d">> >>
  /\ rq[1].description = <<"a", "d", "d", " ", "d", "e", "l", "e", "t", "e">>

====
